---- MODULE Spec2Model ----
(***************************************************************************)
(* Signal aggregation and alert-generation pipeline of Genuine Bazaar.     *)
(*                                                                         *)
(* The model follows the Python sources: the rule evaluators of            *)
(* DemandDetector and PromotionTimingEngine, the de-duplicating save loop  *)
(* of generate_alerts_for_all_users and of POST /alerts/generate, the      *)
(* alert routes, and the source adapters.                                  *)
(*                                                                         *)
(* Conventions.  An optional value is a sequence of length at most one:    *)
(* None is <<>> and a present value v is <<v>>.  Probabilities,            *)
(* confidences and predicted impacts are fixed-point numbers in            *)
(* hundredths (rain probability 0.75 is 75, predicted_impact 37.5 is       *)
(* 3750).  Text is kept as a string; Chars gives its characters so that    *)
(* str.lower() and the substring test `a in b` are computed.               *)
(***************************************************************************)
EXTENDS Integers, Sequences, FiniteSets, TLC

None == <<>>
Some(v) == <<v>>
IsNone(o) == o = <<>>
Val(o) == o[1]

(***************************************************************************)
(* Text                                                                    *)
(***************************************************************************)
Chars ==
    "umbrella" :> <<"u", "m", "b", "r", "e", "l", "l", "a">> @@
    "raincoat" :> <<"r", "a", "i", "n", "c", "o", "a", "t">> @@
    "rain" :> <<"r", "a", "i", "n">> @@
    "waterproof" :> <<"w", "a", "t", "e", "r", "p", "r", "o", "o", "f">> @@
    "boots" :> <<"b", "o", "o", "t", "s">> @@
    "cold drink" :> <<"c", "o", "l", "d", " ", "d", "r", "i", "n", "k">> @@
    "ice cream" :> <<"i", "c", "e", " ", "c", "r", "e", "a", "m">> @@
    "fan" :> <<"f", "a", "n">> @@
    "ac" :> <<"a", "c">> @@
    "cooler" :> <<"c", "o", "o", "l", "e", "r">> @@
    "summer" :> <<"s", "u", "m", "m", "e", "r">> @@
    "snacks" :> <<"s", "n", "a", "c", "k", "s">> @@
    "beverages" :> <<"b", "e", "v", "e", "r", "a", "g", "e", "s">> @@
    "drinks" :> <<"d", "r", "i", "n", "k", "s">> @@
    "food" :> <<"f", "o", "o", "d">> @@
    "party" :> <<"p", "a", "r", "t", "y">> @@
    "lights" :> <<"l", "i", "g", "h", "t", "s">> @@
    "candles" :> <<"c", "a", "n", "d", "l", "e", "s">> @@
    "sweets" :> <<"s", "w", "e", "e", "t", "s">> @@
    "gifts" :> <<"g", "i", "f", "t", "s">> @@
    "clothes" :> <<"c", "l", "o", "t", "h", "e", "s">> @@
    "electronics" :> <<"e", "l", "e", "c", "t", "r", "o", "n", "i", "c", "s">> @@
    "colors" :> <<"c", "o", "l", "o", "r", "s">> @@
    "water guns" :> <<"w", "a", "t", "e", "r", " ", "g", "u", "n", "s">> @@
    "decorations" :> <<"d", "e", "c", "o", "r", "a", "t", "i", "o", "n", "s">> @@
    "toys" :> <<"t", "o", "y", "s">> @@
    "diwali" :> <<"d", "i", "w", "a", "l", "i">> @@
    "holi" :> <<"h", "o", "l", "i">> @@
    "eid" :> <<"e", "i", "d">> @@
    "christmas" :> <<"c", "h", "r", "i", "s", "t", "m", "a", "s">> @@
    "new year" :> <<"n", "e", "w", " ", "y", "e", "a", "r">> @@
    "Gifts" :> <<"G", "i", "f", "t", "s">> @@
    "laptop" :> <<"l", "a", "p", "t", "o", "p">> @@
    "Diwali" :> <<"D", "i", "w", "a", "l", "i">> @@
    "Bank Holiday" :> <<"B", "a", "n", "k", " ", "H", "o", "l", "i", "d", "a", "y">> @@
    "Party Snacks" :> <<"P", "a", "r", "t", "y", " ", "S", "n", "a", "c", "k", "s">> @@
    "smartphone" :> <<"s", "m", "a", "r", "t", "p", "h", "o", "n", "e">> @@
    "tablet" :> <<"t", "a", "b", "l", "e", "t">> @@
    "product" :> <<"p", "r", "o", "d", "u", "c", "t">> @@
    "item" :> <<"i", "t", "e", "m">> @@
    "popular" :> <<"p", "o", "p", "u", "l", "a", "r">> @@
    "tv" :> <<"t", "v">> @@
    " ac " :> <<" ", "a", "c", " ">> @@
    " laptop " :> <<" ", "l", "a", "p", "t", "o", "p", " ">> @@
    "camera" :> <<"c", "a", "m", "e", "r", "a">> @@
    "" :> <<>>

LowerChar(c) ==
    CASE c = "B" -> "b" [] c = "D" -> "d" [] c = "G" -> "g" [] c = "H" -> "h"
      [] c = "P" -> "p" [] c = "S" -> "s" [] OTHER -> c

\* str.lower() on the characters of a text
Lower(cs) == [i \in 1..Len(cs) |-> LowerChar(cs[i])]

\* Python's `sub in text` on character sequences
IsSubstr(sub, text) ==
    \E i \in 0..(Len(text) - Len(sub)) :
        \A j \in 1..Len(sub) : text[i + j] = sub[j]

\* any(term in keyword.lower() for term in terms)
AnyTermIn(terms, keyword) ==
    \E i \in 1..Len(terms) : IsSubstr(Chars[terms[i]], Lower(Chars[keyword]))

RainKeywords == <<"umbrella", "raincoat", "rain", "waterproof", "boots">>
HotKeywords == <<"cold drink", "ice cream", "fan", "ac", "cooler", "summer">>
EventKeywords == <<"snacks", "beverages", "drinks", "food", "party">>

\* festival_keywords_map of _check_festival_demand, in dict order
FestivalKeywordsMap ==
    << <<"diwali", <<"lights", "candles", "sweets", "gifts", "clothes">> >>,
       <<"holi", <<"colors", "water guns", "clothes", "sweets">> >>,
       <<"eid", <<"clothes", "food", "gifts">> >>,
       <<"christmas", <<"gifts", "decorations", "clothes", "toys">> >>,
       <<"new year", <<"party", "clothes", "gifts", "decorations">> >> >>

\* festival_keywords_map of _check_festival_priming
PrimingKeywordsMap ==
    << <<"diwali", <<"lights", "candles", "sweets", "gifts", "clothes",
                     "electronics">> >>,
       <<"holi", <<"colors", "water guns", "clothes", "sweets">> >>,
       <<"eid", <<"clothes", "food", "gifts">> >>,
       <<"christmas", <<"gifts", "decorations", "clothes", "toys">> >>,
       <<"new year", <<"party", "clothes", "gifts", "decorations">> >> >>

\* The tests above, tabulated once over the texts of the model
Texts == DOMAIN Chars

Lexicons ==
    {RainKeywords, HotKeywords, EventKeywords}
        \cup {FestivalKeywordsMap[i][2] : i \in 1..Len(FestivalKeywordsMap)}
        \cup {PrimingKeywordsMap[i][2] : i \in 1..Len(PrimingKeywordsMap)}

TermIn == [terms \in Lexicons, keyword \in Texts |-> AnyTermIn(terms, keyword)]

LowerText == [t \in Texts |-> Lower(Chars[t])]

\* festival.lower() in holiday_name.lower()
NameIn == [festival \in Texts, holiday_name \in Texts |->
              IsSubstr(LowerText[festival], LowerText[holiday_name])]

(***************************************************************************)
(* Enumerations (app/models/alert.py)                                      *)
(***************************************************************************)
AlertType ==
    {"demand_peak", "weather_opportunity", "event_spike", "social_trend",
     "competitor_stockout", "festival_boost", "promotion_timing",
     "sentiment_peak", "footfall_window"}

AlertPriority == {"low", "medium", "high", "urgent"}

AlertStatus == {"new", "read", "acted", "dismissed"}

(***************************************************************************)
(* Small helpers                                                           *)
(***************************************************************************)
Min(a, b) == IF a <= b THEN a ELSE b
Max(a, b) == IF a >= b THEN a ELSE b

\* Python's seq[:n]
Take(seq, n) == SubSeq(seq, 1, Min(n, Len(seq)))

\* the least element of a non-empty set of integers
Least(S) == CHOOSE i \in S : \A j \in S : i <= j

RECURSIVE Flatten(_)
\* concatenation of a sequence of sequences (list.extend in a loop)
Flatten(ss) == IF ss = <<>> THEN <<>> ELSE Head(ss) \o Flatten(Tail(ss))

\* the keywords of all rows, active or not
AllKeywords(tracked) == [i \in 1..Len(tracked) |-> tracked[i].keyword]

\* [tk.keyword for tk in user.tracked_keywords if tk.is_active]
ActiveKeywords(tracked) ==
    LET act == SelectSeq(tracked, LAMBDA tk : tk.is_active)
    IN  [i \in 1..Len(act) |-> act[i].keyword]

(***************************************************************************)
(* DemandDetector (app/services/demand_detector.py)                        *)
(*                                                                         *)
(* A user is a record [id, is_active, market_categories]; `tracked` is the *)
(* user's TrackedKeyword list; `w` holds what the source adapters return   *)
(* in this run: w.forecast (WeatherService.get_forecast), w.holidays (the  *)
(* provider's holiday list as HolidayService.get_holidays returns it),     *)
(* w.trend (TrendsService.get_trend_score per keyword), w.industry (the    *)
(* trend list per industry), w.hashseed (the process's string-hash salt)   *)
(* and w.clock (datetime.now()).                                           *)
(***************************************************************************)
\* a user taken never to track a keyword of a lexicon
NoLexiconKeyword(tracked, lexicon) == FALSE

\* any(rk in kw for kw in tracked_keywords for rk in lexicon), tracked and active
HasLexiconKeyword(tracked, lexicon) ==
    \E i \in 1..Len(tracked) :
        tracked[i].is_active /\ TermIn[lexicon, tracked[i].keyword]

\* the rain loop of _check_automatic_weather_alerts: first qualifying entry
\* of the next 6, then break
AutoRainAlerts(user, tracked, fc) ==
    LET sl   == Take(fc, 6)
        hits == {i \in 1..Len(sl) :
                    sl[i].rain_probability > 70 /\ sl[i].hours_ahead <= 6}
    IN  IF hits = {} \/ HasLexiconKeyword(tracked, RainKeywords) THEN <<>>
        ELSE LET f == sl[Least(hits)] IN
             << [user_id |-> user.id,
                 alert_type |-> "weather_opportunity",
                 priority |-> "high",
                 title |-> "Rain Alert: Consider Tracking Umbrella Products",
                 message |-> "Rain predicted in {hours_ahead} hours ({rain_prob}% probability) in {city}. Add 'umbrella' or 'raincoat' to your tracked keywords to get automatic alerts!",
                 keyword |-> None,
                 category |-> None,
                 context_data |-> [weather_type |-> "rain",
                                   hours_ahead |-> f.hours_ahead,
                                   rain_probability |-> f.rain_probability,
                                   suggestion |-> "Add 'umbrella' keyword"],
                 predicted_impact |-> f.rain_probability * 50,
                 confidence_score |-> f.rain_probability] >>

\* the hot loop of _check_automatic_weather_alerts over the next 12 entries:
\* `temp > 35` raises on a missing temperature, which ends the evaluator with
\* what it has collected; the first qualifying entry ends the loop
AutoHotAlerts(user, tracked, fc) ==
    LET sl   == Take(fc, 12)
        bad  == {i \in 1..Len(sl) : IsNone(sl[i].temperature)}
        hits == {i \in 1..Len(sl) :
                    /\ ~IsNone(sl[i].temperature)
                    /\ Val(sl[i].temperature) > 35
                    /\ sl[i].hours_ahead <= 12}
    IN  IF hits = {} THEN <<>>
        ELSE IF bad # {} /\ Least(bad) < Least(hits) THEN <<>>
        ELSE IF HasLexiconKeyword(tracked, HotKeywords) THEN <<>>
        ELSE LET f == sl[Least(hits)] IN
             << [user_id |-> user.id,
                 alert_type |-> "weather_opportunity",
                 priority |-> "medium",
                 title |-> "Hot Weather: Consider Tracking Summer Products",
                 message |-> "High temperature ({temp}C) expected in {hours_ahead} hours in {city}. Add 'cold drink' or 'ice cream' to your keywords for automatic alerts!",
                 keyword |-> None,
                 category |-> None,
                 context_data |-> [weather_type |-> "hot",
                                   temperature |-> Val(f.temperature),
                                   hours_ahead |-> f.hours_ahead,
                                   suggestion |-> "Add 'cold drink' keyword"],
                 predicted_impact |-> 3000,
                 confidence_score |-> 70] >>

\* _check_automatic_weather_alerts
CheckAutomaticWeatherAlerts(user, tracked, w) ==
    IF IsNone(w.forecast) THEN <<>>
    ELSE AutoRainAlerts(user, tracked, Val(w.forecast))
            \o AutoHotAlerts(user, tracked, Val(w.forecast))

(***************************************************************************)
(* IndustryTrendsService (app/services/industry_trends.py)                 *)
(***************************************************************************)
\* self.industry_keywords, for the industries of the model
IndustryKeywords(industry) ==
    CASE industry = "electronics" ->
            <<"smartphone", "laptop", "tablet", "headphones", "earbuds",
              "smartwatch", "camera", "tv", "speaker", "charger",
              "power bank", "gaming", "console", "monitor", "keyboard">>
      [] industry = "food" ->
            <<"pizza", "burger", "coffee", "tea", "snacks", "chocolate",
              "ice cream", "cold drink", "juice", "biscuit", "cake">>
      [] OTHER -> <<>>

\* hash(keyword) % 20: Python salts str hashes per process, so the value is
\* any of 0..19, fixed for a keyword within a process.  Keywords of one list
\* are distinct, so the position i stands for the keyword.
HashMod20(seed, i) == (seed * (i + 1) + i) % 20

\* _get_fallback_trends
GetFallbackTrends(industry, seed) ==
    LET known == IndustryKeywords(industry)
        kws   == Take(IF known = <<>>
                      THEN <<"product", "item", "popular", "trending">>
                      ELSE known, 10)
    IN  [i \in 1..Len(kws) |->
            LET base_score == 40 + ((i - 1) * 5) + HashMod20(seed, i - 1)
            IN  [keyword |-> kws[i],
                 trend_score |-> Min(100, base_score),
                 status |-> IF base_score < 60 THEN "rising" ELSE "trending",
                 source |-> "default"]]

\* get_all_industry_trends: a sequence of <<industry, trends>> in dict order;
\* fetched[industry] is what get_industry_trends returned for the industry
GetAllIndustryTrends(industries, fetched, seed) ==
    [i \in 1..Len(industries) |->
        LET trends == fetched[industries[i]]
        IN  << industries[i],
               IF trends = <<>> THEN GetFallbackTrends(industries[i], seed)
               ELSE trends >>]

\* keyword.lower() in [tk.keyword.lower() for active tk]
AlreadyTracked(tracked, keyword) ==
    \E i \in 1..Len(tracked) :
        /\ tracked[i].is_active
        /\ LowerText[tracked[i].keyword] = LowerText[keyword]

\* the alert of _check_industry_trends for one trend entry
IndustryAlert(user, tracked, industry, trend) ==
    [user_id |-> user.id,
     alert_type |-> "social_trend",
     priority |-> IF trend.trend_score > 80 THEN "high" ELSE "medium",
     title |-> "{industry} Trend: {keyword} is {status}",
     message |-> "{keyword} is currently {status} in {industry} (trend score: {trend_score}/100). High demand expected. Consider boosting visibility or stock!",
     keyword |-> Some(trend.keyword),
     category |-> Some(industry),
     context_data |-> [industry |-> industry,
                       trend_score |-> trend.trend_score,
                       status |-> trend.status,
                       suggestion |-> IF AlreadyTracked(tracked, trend.keyword)
                                      THEN None ELSE Some("Track keyword")],
     predicted_impact |-> trend.trend_score * 50,
     confidence_score |-> trend.trend_score]

\* _check_industry_trends
CheckIndustryTrends(user, tracked, w) ==
    IF user.market_categories = <<>> THEN <<>>
    ELSE LET all_trends == GetAllIndustryTrends(user.market_categories,
                                                w.industry, w.hashseed)
         IN  Flatten([i \in 1..Len(all_trends) |->
                LET industry   == all_trends[i][1]
                    top_trends == Take(all_trends[i][2], 3)
                    hot == SelectSeq(top_trends, LAMBDA t : t.trend_score > 70)
                IN  [j \in 1..Len(hot) |->
                        IndustryAlert(user, tracked, industry, hot[j])]])

(***************************************************************************)
(* Per-keyword checks of DemandDetector                                    *)
(***************************************************************************)
RainDemandAlert(user, keyword, f) ==
    [user_id |-> user.id,
     alert_type |-> "weather_opportunity",
     priority |-> "high",
     title |-> "Rain Alert: {keyword} Demand Spike Expected",
     message |-> "Rain predicted in {hours_ahead} hours ({rain_prob}% probability). Expected spike in {keyword} demand. Stock up now!",
     keyword |-> Some(keyword),
     category |-> None,
     context_data |-> [weather_type |-> "rain",
                       hours_ahead |-> f.hours_ahead,
                       rain_probability |-> f.rain_probability],
     predicted_impact |-> f.rain_probability * 50,
     confidence_score |-> f.rain_probability]

HotDemandAlert(user, keyword, f) ==
    [user_id |-> user.id,
     alert_type |-> "weather_opportunity",
     priority |-> "medium",
     title |-> "Hot Weather: {keyword} Demand Increase",
     message |-> "High temperature ({temp}C) expected. Increase visibility of {keyword} products.",
     keyword |-> Some(keyword),
     category |-> None,
     context_data |-> [weather_type |-> "hot",
                       temperature |-> Val(f.temperature),
                       hours_ahead |-> f.hours_ahead],
     predicted_impact |-> 3000,
     confidence_score |-> 70]

RECURSIVE WeatherDemandLoop(_, _, _)
\* the loop of _check_weather_demand: no break; a missing temperature raises
\* at `temp > 35`, after the rain alert of that entry was appended
WeatherDemandLoop(user, keyword, sl) ==
    IF sl = <<>> THEN <<>>
    ELSE LET f    == Head(sl)
             rain == IF /\ f.rain_probability > 70
                        /\ f.hours_ahead <= 6
                        /\ TermIn[RainKeywords, keyword]
                     THEN << RainDemandAlert(user, keyword, f) >> ELSE <<>>
         IN  IF IsNone(f.temperature) THEN rain
             ELSE LET hot == IF /\ Val(f.temperature) > 35
                                /\ f.hours_ahead <= 12
                                /\ TermIn[HotKeywords, keyword]
                             THEN << HotDemandAlert(user, keyword, f) >>
                             ELSE <<>>
                  IN  rain \o hot \o WeatherDemandLoop(user, keyword, Tail(sl))

\* _check_weather_demand
CheckWeatherDemand(user, keyword, w) ==
    IF IsNone(w.forecast) THEN <<>>
    ELSE WeatherDemandLoop(user, keyword, Take(Val(w.forecast), 6))

\* _check_event_demand
CheckEventDemand(user, keyword) ==
    IF TermIn[EventKeywords, keyword]
    THEN << [user_id |-> user.id,
             alert_type |-> "event_spike",
             priority |-> "medium",
             title |-> "Local Event Detected: {keyword} Opportunity",
             message |-> "Local events detected in {city}. Boost visibility of {keyword} products.",
             keyword |-> Some(keyword),
             category |-> None,
             context_data |-> [event_type |-> "local_event"],
             predicted_impact |-> 2500,
             confidence_score |-> 60] >>
    ELSE <<>>

\* the check with an estimated score in place of a missing one
CheckSocialTrendsEstimated(user, keyword, w) ==
    LET trend_score == IF IsNone(w.trend[keyword]) THEN 75
                       ELSE Val(w.trend[keyword])
    IN  IF trend_score > 70
        THEN << [user_id |-> user.id,
                 alert_type |-> "social_trend",
                 priority |-> "high",
                 title |-> "Trending: {keyword} on Social Media",
                 message |-> "{keyword} is trending (score: {trend_score}/100). Capitalize on this trend by increasing visibility and stock.",
                 keyword |-> Some(keyword),
                 category |-> None,
                 context_data |-> [trend_score |-> trend_score,
                                   source |-> "google_trends"],
                 predicted_impact |-> trend_score * 80,
                 confidence_score |-> trend_score] >>
        ELSE <<>>

\* the check with the score itself as confidence, not the score / 100
CheckSocialTrendsRaw(user, keyword, w) ==
    LET trend_score == w.trend[keyword]
    IN  IF ~IsNone(trend_score) /\ Val(trend_score) # 0 /\ Val(trend_score) > 70
        THEN << [user_id |-> user.id,
                 alert_type |-> "social_trend",
                 priority |-> "high",
                 title |-> "Trending: {keyword} on Social Media",
                 message |-> "{keyword} is trending (score: {trend_score}/100). Capitalize on this trend by increasing visibility and stock.",
                 keyword |-> Some(keyword),
                 category |-> None,
                 context_data |-> [trend_score |-> Val(trend_score),
                                   source |-> "google_trends"],
                 predicted_impact |-> Val(trend_score) * 80,
                 confidence_score |-> Val(trend_score) * 100] >>
        ELSE <<>>

\* _check_social_trends: `trend_score and trend_score > 70`
CheckSocialTrends(user, keyword, w) ==
    LET trend_score == w.trend[keyword]
    IN  IF ~IsNone(trend_score) /\ Val(trend_score) # 0 /\ Val(trend_score) > 70
        THEN << [user_id |-> user.id,
                 alert_type |-> "social_trend",
                 priority |-> "high",
                 title |-> "Trending: {keyword} on Social Media",
                 message |-> "{keyword} is trending (score: {trend_score}/100). Capitalize on this trend by increasing visibility and stock.",
                 keyword |-> Some(keyword),
                 category |-> None,
                 context_data |-> [trend_score |-> Val(trend_score),
                                   source |-> "google_trends"],
                 predicted_impact |-> Val(trend_score) * 80,
                 confidence_score |-> Val(trend_score)] >>
        ELSE <<>>

\* _check_competitor_stockouts: fires for every keyword
CheckCompetitorStockouts(user, keyword) ==
    << [user_id |-> user.id,
        alert_type |-> "competitor_stockout",
        priority |-> "high",
        title |-> "Competitor Stockout: {keyword} Opportunity",
        message |-> "Competitor stockout detected for {keyword}. Increase visibility of your in-stock products now!",
        keyword |-> Some(keyword),
        category |-> None,
        context_data |-> [competitor_count |-> 1,
                          opportunity_window |-> "24 hours"],
        predicted_impact |-> 4000,
        confidence_score |-> 70] >>

(***************************************************************************)
(* HolidayService.get_upcoming_holidays (app/services/holiday_service.py)  *)
(*                                                                         *)
(* A provider holiday is [name, off]: off is the number of days from       *)
(* today's date to the holiday's date.  w.holidays is None when the API    *)
(* key is missing or get_holidays failed.                                  *)
(***************************************************************************)
\* list.sort(key=date) is stable: h goes after the entries not later than it
InsertByDate(h, sorted) ==
    LET before == SelectSeq(sorted, LAMBDA x : x.off <= h.off)
        after  == SelectSeq(sorted, LAMBDA x : x.off > h.off)
    IN  before \o <<h>> \o after

RECURSIVE SortByDate(_)
SortByDate(hs) ==
    IF hs = <<>> THEN <<>>
    ELSE InsertByDate(hs[Len(hs)], SortByDate(SubSeq(hs, 1, Len(hs) - 1)))

GetUpcomingHolidays(holidays, days_ahead) ==
    IF IsNone(holidays) THEN <<>>
    ELSE SortByDate(SelectSeq(Val(holidays),
                              LAMBDA h : 0 <= h.off /\ h.off <= days_ahead))

\* the festivals of a map that a holiday name and a keyword both match,
\* in map order
MatchingFestivals(map, holiday_name, keyword) ==
    SelectSeq(map, LAMBDA e :
        /\ NameIn[e[1], holiday_name]
        /\ TermIn[e[2], keyword])

\* _check_festival_demand
CheckFestivalDemand(user, keyword, w) ==
    LET holidays == GetUpcomingHolidays(w.holidays, 7)
    IN  Flatten([i \in 1..Len(holidays) |->
            LET fs == MatchingFestivals(FestivalKeywordsMap,
                                        holidays[i].name, keyword)
            IN  [j \in 1..Len(fs) |->
                    [user_id |-> user.id,
                     alert_type |-> "festival_boost",
                     priority |-> "high",
                     title |-> "{holiday_name}: {keyword} Demand Boost",
                     message |-> "{holiday_name} is coming up. Expected boost in {keyword} demand. Stock and promote now!",
                     keyword |-> Some(keyword),
                     category |-> None,
                     context_data |-> [holiday_name |-> holidays[i].name,
                                       holiday_date |-> holidays[i].off,
                                       festival_type |-> fs[j][1]],
                     predicted_impact |-> 6000,
                     confidence_score |-> 80]]])

\* the per-keyword part of detect_demand_peaks
KeywordDemandAlerts(user, keyword, w) ==
    CheckWeatherDemand(user, keyword, w)
        \o CheckEventDemand(user, keyword)
        \o CheckSocialTrends(user, keyword, w)
        \o CheckCompetitorStockouts(user, keyword)
        \o CheckFestivalDemand(user, keyword, w)

\* detect_demand_peaks(user) with keywords taken from the user
DetectDemandPeaks(user, tracked, w) ==
    LET keywords == ActiveKeywords(tracked)
    IN  CheckAutomaticWeatherAlerts(user, tracked, w)
            \o CheckIndustryTrends(user, tracked, w)
            \o Flatten([i \in 1..Len(keywords) |->
                            KeywordDemandAlerts(user, keywords[i], w)])

(***************************************************************************)
(* PromotionTimingEngine (app/services/promotion_timing.py)                *)
(*                                                                         *)
(* w.clock is [hour, weekday, midnight]: midnight holds when now() is      *)
(* exactly 00:00:00.000000.                                                *)
(***************************************************************************)
\* _check_sentiment_peaks: `trend_score and trend_score > 65`
CheckSentimentPeaks(user, keyword, w) ==
    LET trend_score == w.trend[keyword]
    IN  IF ~IsNone(trend_score) /\ Val(trend_score) # 0 /\ Val(trend_score) > 65
        THEN << [user_id |-> user.id,
                 alert_type |-> "sentiment_peak",
                 priority |-> "high",
                 title |-> "Sentiment Peak: Run {keyword} Promotion Now",
                 message |-> "Trust and interest for {keyword} is rising (score: {trend_score}/100). Run promotion now for 3x conversion rate.",
                 keyword |-> Some(keyword),
                 category |-> None,
                 context_data |-> [sentiment_score |-> Val(trend_score),
                                   recommended_duration |-> "3-5 days"],
                 predicted_impact |-> Val(trend_score) * 60,
                 confidence_score |-> Val(trend_score)] >>
        ELSE <<>>

\* (holiday_date - datetime.now()).days: the holiday's date is its midnight,
\* and timedelta.days rounds down
DaysUntil(off, clock) ==
    IF clock.hour = 0 /\ clock.midnight THEN off ELSE off - 1

\* _check_festival_priming
CheckFestivalPriming(user, keyword, w) ==
    LET holidays == GetUpcomingHolidays(w.holidays, 14)
    IN  Flatten([i \in 1..Len(holidays) |->
            LET days_until == DaysUntil(holidays[i].off, w.clock)
                fs == IF 3 <= days_until /\ days_until <= 7
                      THEN MatchingFestivals(PrimingKeywordsMap,
                                             holidays[i].name, keyword)
                      ELSE <<>>
            IN  [j \in 1..Len(fs) |->
                    [user_id |-> user.id,
                     alert_type |-> "promotion_timing",
                     priority |-> "high",
                     title |-> "Festival Priming Window: {holiday_name}",
                     message |-> "{holiday_name} is in {days_until} days. This is the PRIME window for {keyword} promotions. Launch now for maximum ROI!",
                     keyword |-> Some(keyword),
                     category |-> None,
                     context_data |-> [holiday_name |-> holidays[i].name,
                                       holiday_date |-> holidays[i].off,
                                       days_until |-> days_until,
                                       window_type |-> "priming"],
                     predicted_impact |-> 7000,
                     confidence_score |-> 85]]])

\* _check_footfall_hours
CheckFootfallHours(user, keyword, w) ==
    LET current_hour == w.clock.hour
        is_weekend   == w.clock.weekday >= 5
        in_window    == IF is_weekend
                        THEN 10 <= current_hour /\ current_hour < 20
                        ELSE \/ (10 <= current_hour /\ current_hour < 12)
                             \/ (18 <= current_hour /\ current_hour < 21)
    IN  IF in_window
        THEN << [user_id |-> user.id,
                 alert_type |-> "footfall_window",
                 priority |-> "medium",
                 title |-> "High Footfall Window: Promote {keyword} Now",
                 message |-> "Currently in high footfall window ({current_hour}:00). Boost {keyword} visibility for immediate impact.",
                 keyword |-> Some(keyword),
                 category |-> None,
                 context_data |-> [current_hour |-> current_hour,
                                   is_weekend |-> is_weekend,
                                   window_type |-> "footfall"],
                 predicted_impact |-> 2500,
                 confidence_score |-> 60] >>
        ELSE <<>>

\* _check_competitor_inactivity
CheckCompetitorInactivity(user, keyword, w) ==
    LET current_hour == w.clock.hour
    IN  IF current_hour >= 23 \/ current_hour < 6
        THEN << [user_id |-> user.id,
                 alert_type |-> "promotion_timing",
                 priority |-> "medium",
                 title |-> "Competitor Inactivity Window: {keyword}",
                 message |-> "Low competitor activity detected. Run {keyword} promotion now for better visibility.",
                 keyword |-> Some(keyword),
                 category |-> None,
                 context_data |-> [window_type |-> "competitor_inactivity",
                                   current_hour |-> current_hour,
                                   advantage |-> "less_competition"],
                 predicted_impact |-> 2000,
                 confidence_score |-> 50] >>
        ELSE <<>>

\* the per-keyword part of find_promotion_windows
KeywordPromotionAlerts(user, keyword, w) ==
    CheckSentimentPeaks(user, keyword, w)
        \o CheckFestivalPriming(user, keyword, w)
        \o CheckFootfallHours(user, keyword, w)
        \o CheckCompetitorInactivity(user, keyword, w)

\* find_promotion_windows(user) with keywords taken from the user
FindPromotionWindows(user, tracked, w) ==
    LET keywords == ActiveKeywords(tracked)
    IN  Flatten([i \in 1..Len(keywords) |->
                    KeywordPromotionAlerts(user, keywords[i], w)])

(***************************************************************************)
(* Source adapters                                                         *)
(*                                                                         *)
(* A call of an adapter ends in Ret(v), the value it returns, or in        *)
(* Raise(e), an exception that reaches the caller.  `resp` is what         *)
(* requests.get produced: resp.raised (a timeout or connection error),     *)
(* resp.status_code and resp.json, the decoded body, None when the body    *)
(* is not JSON.  A decoded body is a record of the keys the adapters read, *)
(* each None when the key is missing: list (forecast entries: dt in hours  *)
(* from now, temp, rain as the 3h volume in hundredths of a millimetre,    *)
(* weather_id), holidays (response.holidays), totalResults, and the keys   *)
(* of a current-weather body: temp, rain, weather_id.                      *)
(***************************************************************************)
Ret(v) == [raised |-> FALSE, value |-> v]
Raise(e) == [raised |-> TRUE, error |-> e]

\* requests.get, response.raise_for_status() and response.json() get through
Decoded(resp) ==
    ~resp.raised /\ resp.status_code < 400 /\ ~IsNone(resp.json)

\* the rain probability read off a body or a forecast entry that carries no
\* rain volume: weather[0].id in 200..599 is precipitation
FromWeatherId(weather_id) ==
    IF ~IsNone(weather_id) /\ 200 <= Val(weather_id) /\ Val(weather_id) < 600
    THEN 50 ELSE 0

\* WeatherService.get_current_weather: the API key is not checked
GetCurrentWeather(api_key, resp) ==
    IF ~Decoded(resp) THEN Ret(None)
    ELSE LET data == Val(resp.json)
         IN  Ret(Some([temperature |-> data.temp,
                       rain_probability |->
                          IF ~IsNone(data.rain) THEN 100
                          ELSE FromWeatherId(data.weather_id)]))

\* one entry of the hourly forecast list
ForecastEntry(e) ==
    [hours_ahead |-> e.dt,
     temperature |-> e.temp,
     rain_probability |->
        IF ~IsNone(e.rain) THEN Min(Val(e.rain) \div 3, 100)
        ELSE FromWeatherId(e.weather_id)]

\* WeatherService.get_forecast(city, hours_ahead, country_code): the second
\* definition of the name, which replaces the first
GetForecast(api_key, resp, hours_ahead) ==
    IF ~api_key THEN Ret(None)
    ELSE IF ~Decoded(resp) THEN Ret(None)
    ELSE LET data == Val(resp.json) IN
         IF IsNone(data.list) \/ Val(data.list) = <<>> THEN Ret(None)
         ELSE LET entries == Val(data.list)
                  late == {i \in 1..Len(entries) : entries[i].dt > hours_ahead}
                  kept == IF late = {} THEN entries
                          ELSE SubSeq(entries, 1, Least(late) - 1)
              IN  Ret(Some([i \in 1..Len(kept) |-> ForecastEntry(kept[i])]))

\* WeatherService.get_weather_data: get_forecast(city, country_code, days=1)
\* names a parameter the surviving get_forecast does not have
GetWeatherData(api_key, resp, use_forecast) ==
    IF use_forecast THEN Raise("TypeError")
    ELSE GetCurrentWeather(api_key, resp)

\* HolidayService.get_holidays: the API key is not checked
GetHolidays(api_key, resp) ==
    IF ~Decoded(resp) THEN Ret(None)
    ELSE IF IsNone(Val(resp.json).holidays) THEN Ret(Some(<<>>))
    ELSE Ret(Some(Val(Val(resp.json).holidays)))

\* HolidayService.get_upcoming_holidays(country, days_ahead)
UpcomingHolidays(api_key, resp, days_ahead) ==
    IF ~api_key THEN Ret(<<>>)
    ELSE Ret(GetUpcomingHolidays(GetHolidays(api_key, resp).value, days_ahead))

\* GDELTService.fetch_gdelt_trends
FetchGdeltTrends(keyword, resp) ==
    IF Len(Chars[keyword]) < 3 THEN Ret(None)
    ELSE IF ~Decoded(resp) THEN Ret(None)
    ELSE Ret(resp.json)

\* TrendsService.get_trend_score: pt is what pytrends did, an exception
\* (from TrendReq or the request), an empty frame, or a frame whose last
\* value is pt.latest
GetTrendScore(pt) ==
    IF pt.kind = "data" THEN Ret(Some(pt.latest)) ELSE Ret(None)

\* NewsAPIService._calculate_score, articles_per_day = article_count / days
CalculateScore(article_count, days) ==
    IF article_count >= 50 * days
    THEN Min(100, 80 + ((article_count - 50 * days) \div (2 * days)))
    ELSE IF article_count >= 20 * days
    THEN Min(80, 50 + ((article_count - 20 * days) \div days))
    ELSE IF article_count >= 10 * days
    THEN Min(50, 30 + ((2 * (article_count - 10 * days)) \div days))
    ELSE IF article_count >= 5 * days
    THEN Min(30, 15 + ((3 * (article_count - 5 * days)) \div days))
    ELSE IF article_count >= days
    THEN Min(15, 5 + ((2 * article_count) \div days))
    ELSE Max(0, (5 * article_count) \div days)

\* `"trending" if score > 50 else "rising" if score > 20 else "low"`
NewsStatus(score) ==
    IF score > 50 THEN "trending" ELSE IF score > 20 THEN "rising" ELSE "low"

\* high_trend_keywords and medium_trend_keywords, for the texts of the model
EstimatedScores == ("laptop" :> 60) @@ ("smartphone" :> 65) @@ ("clothes" :> 60)

\* NewsAPIService._get_fallback_score
GetFallbackScore(keyword) ==
    LET known == {k \in DOMAIN EstimatedScores : Chars[k] = LowerText[keyword]}
        score == IF known = {} THEN 30
                 ELSE EstimatedScores[CHOOSE k \in known : TRUE]
    IN  [keyword |-> keyword, score |-> score, articles |-> 0,
         status |-> NewsStatus(score), source |-> "estimated"]

\* NewsAPIService.search_trend(keyword, days)
SearchTrend(api_key, keyword, resp, days) ==
    IF ~api_key THEN Ret(Some(GetFallbackScore(keyword)))
    ELSE IF resp.raised THEN Ret(Some(GetFallbackScore(keyword)))
    ELSE IF resp.status_code = 401 \/ resp.status_code = 429
    THEN Ret(Some(GetFallbackScore(keyword)))
    ELSE IF ~Decoded(resp) THEN Ret(Some(GetFallbackScore(keyword)))
    ELSE LET total_articles ==
                IF IsNone(Val(resp.json).totalResults) THEN 0
                ELSE Val(Val(resp.json).totalResults)
             score == CalculateScore(total_articles, days)
         IN  IF total_articles = 0
             THEN Ret(Some([keyword |-> keyword, score |-> 0, articles |-> 0,
                            status |-> "none", source |-> "newsapi"]))
             ELSE Ret(Some([keyword |-> keyword, score |-> score,
                            articles |-> total_articles,
                            status |-> NewsStatus(score),
                            source |-> "newsapi"]))

(***************************************************************************)
(* GDELT trend extraction (app/services/gdelt_service.py).  A decoded      *)
(* GDELT body is [timeline |-> None or the list of items]; an item is      *)
(* [data |-> None or the list of observations]; an observation is its      *)
(* "value" in hundredths, 0 when the key is missing (d.get("value", 0)).   *)
(* The averages are compared as the code compares them, cross-multiplied   *)
(* so that no division is needed.                                          *)
(***************************************************************************)
RECURSIVE Sum(_)
Sum(seq) == IF seq = <<>> THEN 0 ELSE Head(seq) + Sum(Tail(seq))

\* seq[-n:]
LastN(seq, n) == SubSeq(seq, Max(1, Len(seq) - n + 1), Len(seq))

MaxOf(seq) == CHOOSE m \in {seq[i] : i \in 1..Len(seq)} :
                  \A i \in 1..Len(seq) : seq[i] <= m

\* [d.get("value", 0) for d in data_list if ... d.get("value", 0) > 0]
RECURSIVE PositiveValues(_)
PositiveValues(data_list) ==
    IF data_list = <<>> THEN <<>>
    ELSE IF Head(data_list) > 0
    THEN <<Head(data_list)>> \o PositiveValues(Tail(data_list))
    ELSE PositiveValues(Tail(data_list))

\* GDELTService._validate_trend_data
ValidateTrendData(data) ==
    IF IsNone(data.timeline) \/ Val(data.timeline) = <<>> THEN FALSE
    ELSE LET item == Val(data.timeline)[1] IN
         IF IsNone(item.data) \/ Len(Val(item.data)) < 7 THEN FALSE
         ELSE LET values == PositiveValues(Val(item.data)) IN
              IF Len(values) < 7 THEN FALSE
              ELSE LET recent_vals == LastN(values, 7)
                       has_min_volume == MaxOf(values) > 5
                       has_recent_activity == values[Len(values)] > 1
                       is_above_average ==
                           10 * Len(values) * Sum(recent_vals)
                               >= 9 * Len(recent_vals) * Sum(values)
                   IN  has_min_volume /\ has_recent_activity
                           /\ is_above_average

\* a score that adds the momentum bonus without the clamp
SeriesScoreUnclamped(values) ==
    LET recent_val == values[Len(values)]
        recent == LastN(values, 7)
        base_score == IF recent_val < 1000 THEN recent_val
                      ELSE recent_val \div 100
    IN  IF 10 * Len(values) * Sum(recent) > 11 * Len(recent) * Sum(values)
        THEN base_score + 20
        ELSE IF Len(values) * Sum(recent) > Len(recent) * Sum(values)
        THEN base_score + 10
        ELSE base_score

\* the score of one list of positive values (get_trend_score l.122-137,
\* search_keyword l.206-221)
SeriesScore(values) ==
    LET recent_val == values[Len(values)]
        recent == LastN(values, 7)
        base_score == IF recent_val < 1000 THEN recent_val
                      ELSE recent_val \div 100
    IN  IF 10 * Len(values) * Sum(recent) > 11 * Len(recent) * Sum(values)
        THEN Min(100, Max(20, base_score + 20))
        ELSE IF Len(values) * Sum(recent) > Len(recent) * Sum(values)
        THEN Min(100, Max(15, base_score + 10))
        ELSE Min(100, Max(10, base_score))

\* the loop over data["timeline"]: the first item with positive values
\* gives the score
ExtractScore(data) ==
    IF IsNone(data.timeline) THEN None
    ELSE LET timeline == Val(data.timeline)
             scored == {i \in 1..Len(timeline) :
                           /\ ~IsNone(timeline[i].data)
                           /\ PositiveValues(Val(timeline[i].data)) # <<>>}
         IN  IF scored = {} THEN None
             ELSE Some(SeriesScore(
                     PositiveValues(Val(timeline[Least(scored)].data))))

\* GDELTService.get_trend_score
GdeltGetTrendScore(keyword, resp) ==
    LET data == FetchGdeltTrends(keyword, resp).value IN
    IF IsNone(data) THEN None
    ELSE IF ~ValidateTrendData(Val(data)) THEN None
    ELSE LET score == ExtractScore(Val(data)) IN
         IF ~IsNone(score) /\ Val(score) # 0 /\ Val(score) >= 10 THEN score
         ELSE None

\* `"trending" if score > 50 else "rising"`
GdeltStatus(score) == IF score > 50 THEN "trending" ELSE "rising"

\* GDELTService.search_keyword
GdeltSearchKeyword(keyword, resp) ==
    LET data == FetchGdeltTrends(keyword, resp).value IN
    IF IsNone(data) THEN None
    ELSE IF ~ValidateTrendData(Val(data)) THEN None
    ELSE LET score == ExtractScore(Val(data)) IN
         IF IsNone(score) \/ Val(score) < 10 THEN None
         ELSE Some([keyword |-> keyword, trend_score |-> Val(score),
                    status |-> GdeltStatus(Val(score)), source |-> "gdelt",
                    country |-> "IN"])

\* trends.sort(key=trend_score, reverse=True): a stable insertion
RECURSIVE InsertByScore(_, _)
InsertByScore(t, sorted) ==
    IF sorted = <<>> THEN <<t>>
    ELSE IF Head(sorted).trend_score >= t.trend_score
    THEN <<Head(sorted)>> \o InsertByScore(t, Tail(sorted))
    ELSE <<t>> \o sorted

RECURSIVE SortByScore(_)
SortByScore(ts) ==
    IF ts = <<>> THEN <<>>
    ELSE InsertByScore(ts[Len(ts)], SortByScore(SubSeq(ts, 1, Len(ts) - 1)))

\* GDELTService.get_trends_for_keywords: resps[i] is what the network does
\* for keywords[i]
GetTrendsForKeywords(keywords, resps) ==
    LET one(i) ==
            LET score == GdeltGetTrendScore(keywords[i], resps[i]) IN
            IF ~IsNone(score) /\ Val(score) >= 10
            THEN << [keyword |-> keywords[i], trend_score |-> Val(score),
                     status |-> GdeltStatus(Val(score)), source |-> "gdelt"] >>
            ELSE <<>>
    IN  SortByScore(Flatten([i \in 1..Len(keywords) |-> one(i)]))

(***************************************************************************)
(* Keyword search (app/services/langchain_search.py, GET /trends/search).  *)
(* Each operation is given with the number of network requests it issues.  *)
(***************************************************************************)
\* str.strip() on the characters of a text
RECURSIVE StripLeft(_)
StripLeft(cs) ==
    IF cs # <<>> /\ Head(cs) = " " THEN StripLeft(Tail(cs)) ELSE cs

RECURSIVE StripRight(_)
StripRight(cs) ==
    IF cs # <<>> /\ cs[Len(cs)] = " "
    THEN StripRight(SubSeq(cs, 1, Len(cs) - 1)) ELSE cs

TextOf(cs) == CHOOSE t \in Texts : Chars[t] = cs

Strip(keyword) == TextOf(StripRight(StripLeft(Chars[keyword])))

\* a fetch that goes to the network whatever the keyword
NoLengthCheckRequests(keyword) == 1

\* the requests.get calls of GDELTService.fetch_gdelt_trends
FetchGdeltRequests(keyword) == IF Len(Chars[keyword]) < 3 THEN 0 ELSE 1

\* LangChainSearchService._get_gdelt_score
GetGdeltScore(resp) ==
    IF resp.raised \/ resp.status_code # 200 \/ IsNone(resp.json) THEN None
    ELSE LET data == Val(resp.json) IN
         IF IsNone(data.timeline) \/ Val(data.timeline) = <<>> THEN None
         ELSE LET item == Val(data.timeline)[1] IN
              IF IsNone(item.data) THEN None
              ELSE LET values == PositiveValues(Val(item.data)) IN
                   IF Len(values) < 7 THEN None
                   ELSE LET recent_val == values[Len(values)] IN
                        IF MaxOf(values) > 3 /\ 2 * recent_val > 1
                        THEN IF recent_val < 1000
                             THEN Some(Min(100, Max(10, recent_val)))
                             ELSE Some(Min(100, Max(10, recent_val \div 100)))
                        ELSE None

\* popular_keywords, for the texts of the model
PopularKeywords ==
    ("smartphone" :> 85) @@ ("laptop" :> 75) @@ ("tablet" :> 65)

\* LangChainSearchService._get_estimated_score; of the word lists only
\* "food" is a text of the model
GetEstimatedScore(keyword) ==
    LET known == {k \in DOMAIN PopularKeywords : Chars[k] = LowerText[keyword]}
    IN  IF known # {} THEN PopularKeywords[CHOOSE k \in known : TRUE]
        ELSE IF IsSubstr(Chars["food"], LowerText[keyword]) THEN 60
        ELSE 40

\* LangChainSearchService.search.  _normalize_keyword only rewrites the
\* query of the request, whose outcome is resp.
LangChainSearch(raw, resp) ==
    LET keyword == Strip(raw) IN
    IF Len(Chars[keyword]) < 3
    THEN [requests |-> 0,
          result |-> [keyword |-> keyword, trend_score |-> 0,
                      status |-> "none", source |-> "invalid",
                      error |-> Some("Keyword must be at least 3 characters")]]
    ELSE LET gdelt_score == GetGdeltScore(resp) IN
         IF ~IsNone(gdelt_score) /\ Val(gdelt_score) >= 10
         THEN [requests |-> 1,
               result |-> [keyword |-> keyword,
                           trend_score |-> Val(gdelt_score),
                           status |-> GdeltStatus(Val(gdelt_score)),
                           source |-> "gdelt", error |-> None]]
         ELSE LET estimated_score == GetEstimatedScore(keyword) IN
              [requests |-> 1,
               result |-> [keyword |-> keyword,
                           trend_score |-> estimated_score,
                           status |-> GdeltStatus(estimated_score),
                           source |-> "estimated", error |-> None]]

\* GET /trends/search: search_keyword_trends.  search_trend issues its
\* request only when the API key is configured, and never returns None.
SearchKeywordTrends(raw, api_key, resp) ==
    LET keyword == Strip(raw) IN
    IF Len(Chars[keyword]) < 3
    THEN [requests |-> 0, status_code |-> 400, body |-> None]
    ELSE LET result == SearchTrend(api_key, keyword, resp, 7).value IN
         IF IsNone(result)
         THEN [requests |-> IF api_key THEN 1 ELSE 0,
               status_code |-> 500, body |-> None]
         ELSE [requests |-> IF api_key THEN 1 ELSE 0,
               status_code |-> 200,
               body |-> Some([keyword |-> Val(result).keyword,
                              trend_score |-> Val(result).score,
                              articles |-> Val(result).articles,
                              status |-> Val(result).status,
                              source |-> Val(result).source])]

(***************************************************************************)
(* Opportunity scorer (app/services/ml_service.py).  A feature of the      *)
(* features dict is [present |-> the key is in the dict, value |-> None or *)
(* its value].  Temperatures are whole degrees, rain probabilities tenths  *)
(* (0.1 is 1), and the running score of the fallback is kept in tenths of  *)
(* a point, which is exact for these inputs.  The explanation is the list  *)
(* of phrases that ", ".join() strings together.                           *)
(***************************************************************************)
\* features.get(key, default)
Get(feature, default) ==
    IF feature.present THEN feature.value ELSE Some(default)

\* int() of a number given in tenths: truncation towards zero
Truncate(tenths) ==
    IF tenths >= 0 THEN tenths \div 10 ELSE -((-tenths) \div 10)

\* MLService._load_model: self.model is set only when the file exists and
\* unpickles
LoadModel(artifact) == artifact = "loadable"

\* a fallback whose extreme-temperature bonus is for heat only
FallbackScoreHeatOnly(features) ==
    LET trend_score == Get(features.search_trend_score, 50)
        temp == Get(features.temperature, 25)
        rain_prob == Get(features.rain_probability, 0)
        score ==
            500
            + (IF ~IsNone(trend_score) THEN (Val(trend_score) - 50) * 4 ELSE 0)
            + (IF Val(Get(features.is_holiday, FALSE)) THEN 200 ELSE 0)
            + (IF IsNone(temp) THEN 0
               ELSE IF 20 <= Val(temp) /\ Val(temp) <= 30 THEN 100
               ELSE IF Val(temp) > 30 THEN 150 ELSE 0)
            - (IF ~IsNone(rain_prob) THEN Val(rain_prob) * 10 ELSE 0)
    IN  Max(0, Min(100, Truncate(score)))

\* MLService._fallback_score
FallbackScore(features) ==
    LET trend_score == Get(features.search_trend_score, 50)
        temp == Get(features.temperature, 25)
        rain_prob == Get(features.rain_probability, 0)
        score ==
            500
            + (IF ~IsNone(trend_score) THEN (Val(trend_score) - 50) * 4 ELSE 0)
            + (IF Val(Get(features.is_holiday, FALSE)) THEN 200 ELSE 0)
            + (IF IsNone(temp) THEN 0
               ELSE IF 20 <= Val(temp) /\ Val(temp) <= 30 THEN 100
               ELSE IF Val(temp) > 30 \/ Val(temp) < 10 THEN 150 ELSE 0)
            - (IF ~IsNone(rain_prob) THEN Val(rain_prob) * 10 ELSE 0)
    IN  Max(0, Min(100, Truncate(score)))

\* MLService._generate_explanation: features.get(key) is None for a missing
\* key, features.get("rain_probability", 0) is 0
GenerateExplanation(features) ==
    LET trend_score == features.search_trend_score.value
        temp == features.temperature.value
        rain_prob == Get(features.rain_probability, 0)
        explanations ==
            (IF IsNone(trend_score) THEN <<>>
             ELSE IF Val(trend_score) > 70 THEN <<"High search interest">>
             ELSE IF Val(trend_score) < 30 THEN <<"Low search interest">>
             ELSE <<"Moderate search interest">>)
            \o (IF Val(Get(features.is_holiday, FALSE))
                THEN <<"Holiday/festival period">> ELSE <<>>)
            \o (IF IsNone(temp) THEN <<>>
                ELSE IF Val(temp) > 35 THEN <<"Hot weather expected">>
                ELSE IF Val(temp) < 15 THEN <<"Cold weather expected">>
                ELSE <<>>)
            \o (IF IsNone(rain_prob) THEN <<>>
                ELSE IF Val(rain_prob) > 7 THEN <<"High rain probability">>
                ELSE IF Val(rain_prob) < 3 THEN <<"Low rain probability">>
                ELSE <<>>)
    IN  IF explanations = <<>> THEN <<"Baseline conditions">>
        ELSE explanations

\* Python's `value or default`: None and 0 (and 0.0) are falsy
OrDefault(value, default) ==
    IF IsNone(value) \/ Val(value) = 0 THEN default ELSE Val(value)

\* the feature vector of predict_opportunity, the argument of
\* self.model.predict: features.get(key, default) or default for the three
\* numbers, 1 if features.get("is_holiday", False) else 0
FeatureVector(features) ==
    <<OrDefault(Get(features.search_trend_score, 50), 50),
      OrDefault(Get(features.temperature, 25), 25),
      OrDefault(Get(features.rain_probability, 0), 0),
      IF Val(Get(features.is_holiday, FALSE)) THEN 1 ELSE 0>>

\* a predictor that hands on what the model gave, unclamped
PredictOpportunityUnclamped(model, features, inference) ==
    Ret([opportunity_score |->
            IF model /\ inference.kind = "number"
            THEN Truncate(inference.tenths)
            ELSE FallbackScore(features),
         features |-> features,
         explanation |-> GenerateExplanation(features)])

\* a predictor that lets an inference error out
PredictOpportunityUnguarded(model, features, inference) ==
    IF model /\ inference.kind # "number" THEN Raise("inference")
    ELSE Ret([opportunity_score |->
                 IF model
                 THEN Max(0, Min(100, Truncate(inference.tenths)))
                 ELSE FallbackScore(features),
              features |-> features,
              explanation |-> GenerateExplanation(features)])

\* MLService.predict_opportunity.  model: self.model is not None;
\* inference: what self.model.predict(...)[0] gives, a number (in tenths),
\* or an exception out of predict or out of int() (a value that is not a
\* number, NaN)
PredictOpportunity(model, features, inference) ==
    LET score ==
            IF model /\ inference.kind = "number"
            THEN Max(0, Min(100, Truncate(inference.tenths)))
            ELSE FallbackScore(features)
    IN  Ret([opportunity_score |-> score, features |-> features,
             explanation |-> GenerateExplanation(features)])

(***************************************************************************)
(* Bounds and input sets                                                   *)
(***************************************************************************)
\* rows ever inserted into the alerts table in one behaviour
MaxAlerts == 12
\* PATCH and DELETE requests on alerts in one behaviour
MaxPatches == 2

UserIds == {1, 2, 3}

\* the users table: user 3 is deactivated
Users ==
    (1 :> [id |-> 1, is_active |-> TRUE, market_categories |-> <<"electronics">>])
    @@ (2 :> [id |-> 2, is_active |-> TRUE, market_categories |-> <<>>])
    @@ (3 :> [id |-> 3, is_active |-> FALSE, market_categories |-> <<"books">>])

KeywordUniverse == {"umbrella", "Gifts", "ice cream", "Party Snacks"}

\* the tracked_keywords rows of each user
TrackedRows ==
    (1 :> << [keyword |-> "Gifts", is_active |-> TRUE] >>)
    @@ (2 :> << [keyword |-> "umbrella", is_active |-> TRUE] >>)
    @@ (3 :> << [keyword |-> "umbrella", is_active |-> TRUE] >>)

Rainy3 == [hours_ahead |-> 3, temperature |-> Some(25), rain_probability |-> 75]
HotRainy5 == [hours_ahead |-> 5, temperature |-> Some(36), rain_probability |-> 80]

NoTrends == [k \in KeywordUniverse |-> None]
NoIndustry == [c \in {"electronics", "books"} |-> <<>>]

\* every provider is unavailable
Quiet ==
    [forecast |-> None, holidays |-> None, trend |-> NoTrends,
     clock |-> [hour |-> 12, weekday |-> 2, midnight |-> FALSE],
     industry |-> NoIndustry, hashseed |-> 0]

\* rain and heat ahead, Diwali in five days, umbrella and laptop trending,
\* three in the morning
Busy ==
    [forecast |-> Some(<<Rainy3, HotRainy5>>),
     holidays |-> Some(<< [name |-> "Diwali", off |-> 5] >>),
     trend |-> [NoTrends EXCEPT !["umbrella"] = Some(75)],
     clock |-> [hour |-> 3, weekday |-> 2, midnight |-> FALSE],
     industry |-> [NoIndustry EXCEPT !["electronics"] =
                     << [keyword |-> "laptop", trend_score |-> 85,
                         status |-> "trending", source |-> "gdelt"],
                        [keyword |-> "smartphone", trend_score |-> 70,
                         status |-> "trending", source |-> "gdelt"] >>],
     hashseed |-> 0]

Worlds == {Quiet, Busy}

(***************************************************************************)
(* State                                                                   *)
(*                                                                         *)
(* Spec serves one operation at a time: a request is handled between two   *)
(* runs of the job, and the job handles its users one after the other.     *)
(***************************************************************************)
VARIABLES
    world,      \* what the providers and the clock return in this behaviour
    tracked,    \* tracked_keywords rows per user
    alerts,     \* committed rows of the alerts table
    nextId,     \* next primary key of the alerts table
    job,        \* generate_alerts_for_all_users: position, users left,
                \* total_alerts, and what its pass over each user did
    out,        \* what the last finished operation returned
    patches,    \* PATCH and DELETE requests served so far
    stable,     \* per user: the last run committed and nothing changed since
    sessions    \* the pipeline executions in flight, each with its own
                \* database session: position, candidates left, rows added

vars == <<world, tracked, alerts, nextId, job, out, patches, stable, sessions>>

(***************************************************************************)
(* The save loop shared by generate_alerts_for_all_users                   *)
(* (app/jobs/alert_generator.py) and POST /alerts/generate                 *)
(* (app/routes/alerts.py)                                                  *)
(***************************************************************************)
\* SessionLocal is built in app/database.py.  A Session flushes pending rows
\* before it runs a query, so a query sees the rows its own session added.
autoflush == TRUE

\* the filter with the keyword compared by SQL `=`, which is never true of NULL
MatchesOpenNullKeyword(a, c) ==
    /\ a.user_id = c.user_id
    /\ a.alert_type = c.alert_type
    /\ a.keyword = c.keyword /\ ~IsNone(c.keyword)
    /\ a.status = "new"

\* the filter without its status condition
MatchesAnyStatus(a, c) ==
    /\ a.user_id = c.user_id
    /\ a.alert_type = c.alert_type
    /\ a.keyword = c.keyword

\* the filter of the `existing` query against one row
MatchesOpen(a, c) ==
    /\ a.user_id = c.user_id
    /\ a.alert_type = c.alert_type
    /\ a.keyword = c.keyword
    /\ a.status = "new"

\* db.query(Alert).filter(...).first() is not None: the committed rows, and
\* the rows this session has added (inserted with the default status "new")
Existing(c, rows, staged) ==
    \/ \E a \in rows : MatchesOpen(a, c)
    \/ /\ autoflush
       /\ \E i \in 1..Len(staged) : MatchesOpen(staged[i], c)

\* Alert(**alert_data): the columns of the row before it has a primary key
NewAlert(c) == c @@ [status |-> "new"]

\* the loop without `if not existing`
SaveLoopNoGate(cands, rows, staged) ==
    staged \o [i \in 1..Len(cands) |-> NewAlert(cands[i])]

RECURSIVE SaveLoop(_, _, _)
\* for alert_data in all_alerts: ... if not existing: db.add(alert).
\* The result is the rows added to the session, in order.
SaveLoop(cands, rows, staged) ==
    IF cands = <<>> THEN staged
    ELSE SaveLoop(Tail(cands), rows,
                  IF Existing(Head(cands), rows, staged) THEN staged
                  ELSE Append(staged, NewAlert(Head(cands))))

\* db.commit(): the added rows get their primary keys and become visible
CommittedRows(staged, firstId) ==
    {staged[i] @@ [id |-> firstId + i - 1] : i \in 1..Len(staged)}

\* demand_alerts + promotion_alerts
AllAlerts(u) ==
    DetectDemandPeaks(Users[u], tracked[u], world)
        \o FindPromotionWindows(Users[u], tracked[u], world)

RECURSIVE SumOver(_, _)
SumOver(S, f) ==
    IF S = {} THEN 0
    ELSE LET x == CHOOSE y \in S : TRUE IN f[x] + SumOver(S \ {x}, f)

ActiveUsers == {u \in UserIds : Users[u].is_active}

\* the orders in which .all() can return a set of rows
Orders(S) ==
    {o \in [1..Cardinality(S) -> S] : \A i, j \in DOMAIN o : i # j => o[i] # o[j]}

(***************************************************************************)
(* generate_alerts_for_all_users                                           *)
(***************************************************************************)
\* the executions that can overlap: the scheduler runs one instance of the
\* job at a time, requests come as they like
SessionIds == {1, 2}

NoSession == [pc |-> "idle", kind |-> "none", user |-> 0,
              todo |-> <<>>, staged |-> <<>>]

NoSessions == [r \in SessionIds |-> NoSession]

Pending == [outcome |-> "pending", detected |-> 0, staged |-> 0, committed |-> 0]

JobIdle == [pc |-> "idle", queue |-> <<>>, total_alerts |-> 0,
            res |-> [u \in UserIds |-> Pending]]

\* users = db.query(User).filter(User.is_active == True).all(); total_alerts = 0
JobStart ==
    /\ job.pc = "idle"
    /\ \E order \in Orders(ActiveUsers) :
          job' = [JobIdle EXCEPT !.pc = "running", !.queue = order]
    /\ UNCHANGED <<world, sessions, tracked, alerts, nextId, out, patches, stable>>

\* the users query raises: the outer handler rolls back and returns 0
JobQueryFails ==
    /\ job.pc = "idle"
    /\ out' = [op |-> "job", ret |-> 0]
    /\ UNCHANGED <<world, sessions, tracked, alerts, nextId, job, patches, stable>>

\* the loop body for the next user, without an exception: every row added
\* by the save loop is committed
JobUserCommits ==
    /\ job.pc = "running" /\ job.queue # <<>>
    /\ LET u      == Head(job.queue)
           batch  == AllAlerts(u)
           staged == SaveLoop(batch, alerts, <<>>)
       IN  /\ nextId + Len(staged) - 1 <= MaxAlerts
           /\ alerts' = alerts \cup CommittedRows(staged, nextId)
           /\ nextId' = nextId + Len(staged)
           /\ job' = [job EXCEPT
                        !.queue = Tail(@),
                        !.total_alerts = @ + Len(staged),
                        !.res[u] = [outcome |-> "committed",
                                    detected |-> Len(batch),
                                    staged |-> Len(staged),
                                    committed |-> Len(staged)]]
           /\ stable' = [stable EXCEPT ![u] = TRUE]
    /\ UNCHANGED <<world, sessions, tracked, out, patches>>

\* the loop body without its try/except: the exception ends the loop
JobUserDetectAborts ==
    /\ job.pc = "running" /\ job.queue # <<>>
    /\ job' = [job EXCEPT !.queue = <<>>]
    /\ UNCHANGED <<world, sessions, tracked, alerts, nextId, out, patches, stable>>

\* detect_demand_peaks or find_promotion_windows raises for the next user
\* (the evaluators catch their own exceptions; reading the user's columns and
\* tracked_keywords is outside those handlers): nothing was added yet
JobUserDetectFails ==
    /\ job.pc = "running" /\ job.queue # <<>>
    /\ LET u == Head(job.queue)
       IN  /\ job' = [job EXCEPT
                        !.queue = Tail(@),
                        !.res[u] = [outcome |-> "detect_error", detected |-> 0,
                                    staged |-> 0, committed |-> 0]]
    /\ UNCHANGED <<world, sessions, tracked, alerts, nextId, out, patches, stable>>

\* where a database call of the loop body can raise: the second candidate's
\* query, or db.commit() after the loop
FailPoints(batch) == {Min(1, Len(batch)), Len(batch)}

\* a handler that commits instead of rolling back: the rows added before the
\* failure stay
JobUserWritePartial ==
    /\ job.pc = "running" /\ job.queue # <<>>
    /\ LET u     == Head(job.queue)
           batch == AllAlerts(u)
       IN  \E done \in FailPoints(batch) :
              LET staged == SaveLoop(Take(batch, done), alerts, <<>>)
              IN  /\ nextId + Len(staged) - 1 <= MaxAlerts
                  /\ alerts' = alerts \cup CommittedRows(staged, nextId)
                  /\ nextId' = nextId + Len(staged)
                  /\ job' = [job EXCEPT
                               !.queue = Tail(@),
                               !.total_alerts = @ + Len(staged),
                               !.res[u] = [outcome |-> "write_error",
                                           detected |-> Len(batch),
                                           staged |-> Len(staged),
                                           committed |-> 0]]
    /\ UNCHANGED <<world, sessions, tracked, out, patches, stable>>

\* a database call raises for the next user after `done` candidates went
\* through the save loop (a query or its flush when done < len(all_alerts),
\* db.commit() when done = len(all_alerts)): db.rollback() drops every added
\* row, and total_alerts keeps the increments made so far
JobUserWriteFails ==
    /\ job.pc = "running" /\ job.queue # <<>>
    /\ LET u     == Head(job.queue)
           batch == AllAlerts(u)
       IN  \E done \in FailPoints(batch) :
              LET staged == SaveLoop(Take(batch, done), alerts, <<>>)
              IN  /\ job' = [job EXCEPT
                               !.queue = Tail(@),
                               !.total_alerts = @ + Len(staged),
                               !.res[u] = [outcome |-> "write_error",
                                           detected |-> Len(batch),
                                           staged |-> Len(staged),
                                           committed |-> 0]]
    /\ UNCHANGED <<world, sessions, tracked, alerts, nextId, out, patches, stable>>

\* return total_alerts
JobFinish ==
    /\ job.pc = "running" /\ job.queue = <<>>
    /\ out' = [op |-> "job", ret |-> job.total_alerts]
    /\ job' = JobIdle
    /\ UNCHANGED <<world, sessions, tracked, alerts, nextId, patches, stable>>

(***************************************************************************)
(* Alert routes (app/routes/alerts.py)                                     *)
(***************************************************************************)
\* POST /alerts/generate for the authenticated active user u
Generate(u) ==
    /\ job.pc = "idle"
    /\ Users[u].is_active
    /\ LET batch  == AllAlerts(u)
           staged == SaveLoop(batch, alerts, <<>>)
       IN  /\ nextId + Len(staged) - 1 <= MaxAlerts
           /\ alerts' = alerts \cup CommittedRows(staged, nextId)
           /\ nextId' = nextId + Len(staged)
           /\ out' = [op |-> "generate", user |-> u, code |-> 200,
                      total_detected |-> Len(batch),
                      created |-> Len(staged)]
           /\ stable' = [stable EXCEPT ![u] = TRUE]
    /\ UNCHANGED <<world, sessions, tracked, job, patches>>

\* the handler raises (it has no try/except): the request fails with 500 and
\* the session is closed without a commit
GenerateFails(u) ==
    /\ job.pc = "idle"
    /\ Users[u].is_active
    /\ out' = [op |-> "generate", user |-> u, code |-> 500,
               total_detected |-> 0, created |-> 0]
    /\ UNCHANGED <<world, sessions, tracked, alerts, nextId, job, patches, stable>>

\* the values AlertUpdate.status can carry: Optional[str], not validated
StatusInputs ==
    {None, Some("new"), Some("read"), Some("acted"), Some("dismissed")}

\* the alert ids the PATCH and DELETE requests carry
RequestIds == {1}

\* the handler with the alert looked up by its id alone
UpdateAlertAnyOwner(u, alert_id, status) ==
    /\ job.pc = "idle"
    /\ Users[u].is_active
    /\ patches < MaxPatches
    /\ patches' = patches + 1
    /\ LET found == {a \in alerts : a.id = alert_id}
       IN  IF found = {}
           THEN /\ out' = [op |-> "update", user |-> u,
                           alert_id |-> alert_id, code |-> 404]
                /\ UNCHANGED <<alerts, stable>>
           ELSE LET a == CHOOSE x \in found : TRUE
                IN  /\ alerts' = IF ~IsNone(status) /\ Val(status) # ""
                                 THEN (alerts \ {a}) \cup
                                        {[a EXCEPT !.status = Val(status)]}
                                 ELSE alerts
                    /\ out' = [op |-> "update", user |-> u,
                               alert_id |-> alert_id, code |-> 200]
                    /\ stable' = [stable EXCEPT ![u] = @ /\ alerts' = alerts]
    /\ UNCHANGED <<world, sessions, tracked, nextId, job>>

\* PATCH /alerts/{alert_id} by user u
UpdateAlert(u, alert_id, status) ==
    /\ job.pc = "idle"
    /\ Users[u].is_active
    /\ patches < MaxPatches
    /\ patches' = patches + 1
    /\ LET found == {a \in alerts : a.id = alert_id /\ a.user_id = u}
       IN  IF found = {}
           THEN /\ out' = [op |-> "update", user |-> u,
                           alert_id |-> alert_id, code |-> 404]
                /\ UNCHANGED <<alerts, stable>>
           ELSE LET a == CHOOSE x \in found : TRUE
                IN  /\ alerts' = IF ~IsNone(status) /\ Val(status) # ""
                                 THEN (alerts \ {a}) \cup
                                        {[a EXCEPT !.status = Val(status)]}
                                 ELSE alerts
                    /\ out' = [op |-> "update", user |-> u,
                           alert_id |-> alert_id, code |-> 200]
                    /\ stable' = [stable EXCEPT ![u] = @ /\ alerts' = alerts]
    /\ UNCHANGED <<world, sessions, tracked, nextId, job>>

\* DELETE /alerts/{alert_id} by user u
DeleteAlert(u, alert_id) ==
    /\ job.pc = "idle"
    /\ Users[u].is_active
    /\ patches < MaxPatches
    /\ patches' = patches + 1
    /\ LET found == {a \in alerts : a.id = alert_id /\ a.user_id = u}
       IN  IF found = {}
           THEN /\ out' = [op |-> "delete", user |-> u,
                           alert_id |-> alert_id, code |-> 404]
                /\ UNCHANGED <<alerts, stable>>
           ELSE /\ alerts' = alerts \ found
                /\ out' = [op |-> "delete", user |-> u,
                           alert_id |-> alert_id, code |-> 200]
                /\ stable' = [stable EXCEPT ![u] = FALSE]
    /\ UNCHANGED <<world, sessions, tracked, nextId, job>>

(***************************************************************************)
(* Specification                                                           *)
(***************************************************************************)
Init ==
    /\ world \in Worlds
    /\ tracked = TrackedRows
    /\ alerts = {}
    /\ nextId = 1
    /\ job = JobIdle
    /\ out = [op |-> "none"]
    /\ patches = 0
    /\ stable = [u \in UserIds |-> FALSE]
    /\ sessions = NoSessions

Next ==
    \/ JobStart
    \/ JobQueryFails
    \/ JobUserCommits
    \/ JobUserDetectFails
    \/ JobUserWriteFails
    \/ JobFinish
    \/ \E u \in UserIds : Generate(u)
    \/ \E u \in UserIds : GenerateFails(u)
    \/ \E u \in UserIds, id \in RequestIds, st \in StatusInputs :
          UpdateAlert(u, id, st)
    \/ \E u \in UserIds, id \in RequestIds : DeleteAlert(u, id)

Spec == Init /\ [][Next]_vars

TypeOK ==
    /\ world \in Worlds
    /\ nextId \in 1..(MaxAlerts + 1)
    /\ patches \in 0..MaxPatches
    /\ \A a \in alerts : a.id \in 1..MaxAlerts /\ a.user_id \in UserIds

(***************************************************************************)
(* The rule evaluators on their own: SpecEval draws what the sources       *)
(* return and the user's keywords, and calls the two detectors.            *)
(***************************************************************************)
NoTemp2 == [hours_ahead |-> 2, temperature |-> None, rain_probability |-> 80]

\* the signals at the top of their ranges: certain rain, trend scores of 100
Certain1 == [hours_ahead |-> 1, temperature |-> Some(40), rain_probability |-> 100]

TopIndustry ==
    [NoIndustry EXCEPT !["electronics"] =
        << [keyword |-> "laptop", trend_score |-> 100,
            status |-> "trending", source |-> "gdelt"] >>]

EvalWorlds ==
    [forecast : {None, Some(<<Rainy3, HotRainy5>>), Some(<<NoTemp2, HotRainy5>>),
                 Some(<<Certain1>>)},
     holidays : {None, Some(<<>>), Some(<< [name |-> "Diwali", off |-> 5] >>)},
     trend : {NoTrends,
              [NoTrends EXCEPT !["umbrella"] = Some(75)],
              [NoTrends EXCEPT !["umbrella"] = Some(0), !["Gifts"] = Some(90)],
              [NoTrends EXCEPT !["umbrella"] = Some(100)]},
     clock : {Quiet.clock, Busy.clock},
     industry : {Quiet.industry, Busy.industry, TopIndustry},
     hashseed : {0, 19}]

EvalTracked ==
    {<<>>,
     << [keyword |-> "umbrella", is_active |-> TRUE] >>,
     << [keyword |-> "umbrella", is_active |-> FALSE] >>,
     << [keyword |-> "Gifts", is_active |-> TRUE] >>,
     << [keyword |-> "ice cream", is_active |-> TRUE] >>,
     << [keyword |-> "Party Snacks", is_active |-> TRUE],
        [keyword |-> "umbrella", is_active |-> TRUE] >>}

InitEval ==
    /\ world \in EvalWorlds
    /\ tracked \in {[u \in UserIds |-> t] : t \in EvalTracked}
    /\ alerts = {}
    /\ nextId = 1
    /\ job = JobIdle
    /\ out = [op |-> "none"]
    /\ patches = 0
    /\ stable = [u \in UserIds |-> FALSE]
    /\ sessions = NoSessions

\* demand_detector.detect_demand_peaks(user)
CallDetectDemandPeaks(u) ==
    /\ out' = [op |-> "detect_demand_peaks", user |-> u,
               ret |-> Ret(DetectDemandPeaks(Users[u], tracked[u], world))]
    /\ UNCHANGED <<world, sessions, tracked, alerts, nextId, job, patches, stable>>

\* promotion_engine.find_promotion_windows(user)
CallFindPromotionWindows(u) ==
    /\ out' = [op |-> "find_promotion_windows", user |-> u,
               ret |-> Ret(FindPromotionWindows(Users[u], tracked[u], world))]
    /\ UNCHANGED <<world, sessions, tracked, alerts, nextId, job, patches, stable>>

NextEval ==
    \/ \E u \in UserIds : CallDetectDemandPeaks(u)
    \/ \E u \in UserIds : CallFindPromotionWindows(u)

SpecEval == InitEval /\ [][NextEval]_vars

(***************************************************************************)
(* The source adapters on their own: SpecAdapters calls each public fetch  *)
(* operation with every configuration and every outcome of the network     *)
(* call.                                                                   *)
(***************************************************************************)
FullBody ==
    [list |-> Some(<< [dt |-> 3, temp |-> Some(25), rain |-> Some(240),
                       weather_id |-> Some(500)],
                      [dt |-> 6, temp |-> Some(36), rain |-> None,
                       weather_id |-> Some(800)],
                      [dt |-> 27, temp |-> None, rain |-> None,
                       weather_id |-> None] >>),
     holidays |-> Some(<< [name |-> "Bank Holiday", off |-> 40],
                          [name |-> "Diwali", off |-> 5] >>),
     totalResults |-> Some(700),
     temp |-> Some(31), rain |-> None, weather_id |-> Some(501)]

\* the JSON object {}
EmptyBody ==
    [list |-> None, holidays |-> None, totalResults |-> None,
     temp |-> None, rain |-> None, weather_id |-> None]

Responses ==
    {[raised |-> TRUE, status_code |-> 0, json |-> None]}
        \cup [raised : {FALSE}, status_code : {200, 401, 429, 500},
              json : {None, Some(FullBody), Some(EmptyBody)}]

PytrendsOutcomes ==
    {[kind |-> "error", latest |-> 0], [kind |-> "empty", latest |-> 0],
     [kind |-> "data", latest |-> 75]}

AdapterKeywords == {"laptop", "ac", "Gifts"}

InitAdapters ==
    /\ world = Quiet
    /\ tracked = TrackedRows
    /\ alerts = {}
    /\ nextId = 1
    /\ job = JobIdle
    /\ out = [op |-> "none"]
    /\ patches = 0
    /\ stable = [u \in UserIds |-> FALSE]
    /\ sessions = NoSessions

\* what an adapter call leaves alone
pipeline == <<world, tracked, alerts, nextId, job, patches, stable, sessions>>

CallGetCurrentWeather ==
    \E api_key \in BOOLEAN, resp \in Responses :
        /\ out' = [op |-> "get_current_weather", api_key |-> api_key,
                resp |-> resp, ret |-> GetCurrentWeather(api_key, resp)]
        /\ UNCHANGED pipeline

CallGetForecast ==
    \E api_key \in BOOLEAN, resp \in Responses :
        /\ out' = [op |-> "get_forecast", api_key |-> api_key, resp |-> resp,
                ret |-> GetForecast(api_key, resp, 24)]
        /\ UNCHANGED pipeline

CallGetWeatherData ==
    \E api_key \in BOOLEAN, resp \in Responses, use_forecast \in BOOLEAN :
        /\ out' = [op |-> "get_weather_data", api_key |-> api_key,
                resp |-> resp, use_forecast |-> use_forecast,
                ret |-> GetWeatherData(api_key, resp, use_forecast)]
        /\ UNCHANGED pipeline

CallGetHolidays ==
    \E api_key \in BOOLEAN, resp \in Responses :
        /\ out' = [op |-> "get_holidays", api_key |-> api_key, resp |-> resp,
                ret |-> GetHolidays(api_key, resp)]
        /\ UNCHANGED pipeline

CallGetUpcomingHolidays ==
    \E api_key \in BOOLEAN, resp \in Responses :
        /\ out' = [op |-> "get_upcoming_holidays", api_key |-> api_key,
                resp |-> resp, ret |-> UpcomingHolidays(api_key, resp, 30)]
        /\ UNCHANGED pipeline

CallFetchGdeltTrends ==
    \E keyword \in AdapterKeywords, resp \in Responses :
        /\ out' = [op |-> "fetch_gdelt_trends", keyword |-> keyword,
                resp |-> resp, ret |-> FetchGdeltTrends(keyword, resp)]
        /\ UNCHANGED pipeline

CallGetTrendScore ==
    \E pt \in PytrendsOutcomes :
        /\ out' = [op |-> "get_trend_score", pt |-> pt, ret |-> GetTrendScore(pt)]
        /\ UNCHANGED pipeline

CallSearchTrend ==
    \E api_key \in BOOLEAN, keyword \in AdapterKeywords, resp \in Responses :
        /\ out' = [op |-> "search_trend", api_key |-> api_key,
                keyword |-> keyword, resp |-> resp,
                ret |-> SearchTrend(api_key, keyword, resp, 7)]
        /\ UNCHANGED pipeline

CallGetAllIndustryTrends ==
    \E industries \in {<<"electronics">>, <<"books">>, <<"electronics", "books">>},
       fetched \in {Quiet.industry, Busy.industry}, seed \in {0, 19} :
        /\ out' = [op |-> "get_all_industry_trends", industries |-> industries,
                fetched |-> fetched,
                ret |-> Ret(GetAllIndustryTrends(industries, fetched, seed))]
        /\ UNCHANGED pipeline

NextAdapters ==
    \/ CallGetCurrentWeather
    \/ CallGetForecast
    \/ CallGetWeatherData
    \/ CallGetHolidays
    \/ CallGetUpcomingHolidays
    \/ CallFetchGdeltTrends
    \/ CallGetTrendScore
    \/ CallSearchTrend
    \/ CallGetAllIndustryTrends

SpecAdapters == InitAdapters /\ [][NextAdapters]_vars

(***************************************************************************)
(* Specification of the keyword search operations: the world is a keyword  *)
(* as typed, what the GDELT request does for it, and what the NewsAPI      *)
(* request does; each action is one call.                                  *)
(***************************************************************************)
\* longest volume series of a GDELT body
MaxSeries == 8

\* observations in hundredths: missing or zero, 0.02, 0.95
SeriesValues == {0, 2, 95}

Series ==
    UNION {[1..n -> SeriesValues] : n \in (MaxSeries - 2)..MaxSeries}
        \cup {<<2, 2, 2, 2, 2, 2, 1250>>, <<1250, 1250, 1250, 1250, 1250, 1250, 1250, 2>>,
              <<1, 1, 1, 1, 1, 1, 1>>, <<>>,
              <<2, 6, 2, 2, 2, 2, 2, 2>>, <<6, 6, 6, 6, 6, 6, 6>>}

GdeltBody(items) == [timeline |-> Some(items)]

GdeltBodies ==
    {[timeline |-> None], GdeltBody(<<>>), GdeltBody(<<[data |-> None]>>),
     GdeltBody(<<[data |-> Some(<<95, 95, 95, 95, 95, 95, 95>>)],
                 [data |-> Some(<<2, 2, 2, 2, 2, 2, 2>>)]>>)}
        \cup {GdeltBody(<<[data |-> Some(s)]>>) : s \in Series}

Ok(body) == [raised |-> FALSE, status_code |-> 200, json |-> Some(body)]

Failures ==
    {[raised |-> TRUE, status_code |-> 0, json |-> None],
     [raised |-> FALSE, status_code |-> 500, json |-> None],
     [raised |-> FALSE, status_code |-> 200, json |-> None]}

Rising == Ok(GdeltBody(<<[data |-> Some(<<2, 2, 2, 2, 2, 2, 95>>)]>>))

NewsOutcomes ==
    Failures \cup {[raised |-> FALSE, status_code |-> 401, json |-> None],
                   Ok(FullBody), Ok(EmptyBody)}

RawKeywords == {"", "tv", "ac", " ac ", "fan", " laptop ", "laptop"}

SearchWorlds ==
    {[keyword |-> "laptop", resp |-> Ok(b), api_key |-> TRUE,
      news |-> Ok(FullBody)] : b \in GdeltBodies}
        \cup [keyword : RawKeywords, resp : Failures \cup {Rising},
              api_key : BOOLEAN, news : NewsOutcomes]

InitSearch ==
    /\ world \in SearchWorlds
    /\ tracked = TrackedRows
    /\ alerts = {}
    /\ nextId = 1
    /\ job = JobIdle
    /\ out = [op |-> "none"]
    /\ patches = 0
    /\ stable = [u \in UserIds |-> FALSE]
    /\ sessions = NoSessions

CallFetchGdelt ==
    /\ out' = [op |-> "fetch_gdelt_trends", keyword |-> world.keyword,
               requests |-> FetchGdeltRequests(world.keyword),
               ret |-> FetchGdeltTrends(world.keyword, world.resp)]
    /\ UNCHANGED pipeline

CallGdeltGetTrendScore ==
    /\ out' = [op |-> "get_trend_score", keyword |-> world.keyword,
               ret |-> GdeltGetTrendScore(world.keyword, world.resp)]
    /\ UNCHANGED pipeline

CallGdeltSearchKeyword ==
    /\ out' = [op |-> "search_keyword", keyword |-> world.keyword,
               ret |-> GdeltSearchKeyword(world.keyword, world.resp)]
    /\ UNCHANGED pipeline

CallGetTrendsForKeywords ==
    /\ out' = [op |-> "get_trends_for_keywords",
               ret |-> GetTrendsForKeywords(
                          <<"ac", world.keyword, "smartphone">>,
                          <<Rising, world.resp, Rising>>)]
    /\ UNCHANGED pipeline

CallLangChainSearch ==
    /\ out' = [op |-> "langchain_search", keyword |-> world.keyword,
               ret |-> LangChainSearch(world.keyword, world.resp)]
    /\ UNCHANGED pipeline

\* LangChainSearchService._get_gdelt_score(keyword)
CallGetGdeltScore ==
    /\ out' = [op |-> "_get_gdelt_score", keyword |-> world.keyword,
               ret |-> GetGdeltScore(world.resp)]
    /\ UNCHANGED pipeline

CallSearchKeywordTrends ==
    /\ out' = [op |-> "search_keyword_trends", keyword |-> world.keyword,
               ret |-> SearchKeywordTrends(world.keyword, world.api_key,
                                           world.news)]
    /\ UNCHANGED pipeline

NextSearch ==
    \/ CallFetchGdelt
    \/ CallGdeltGetTrendScore
    \/ CallGdeltSearchKeyword
    \/ CallGetTrendsForKeywords
    \/ CallLangChainSearch
    \/ CallGetGdeltScore
    \/ CallSearchKeywordTrends

SpecSearch == InitSearch /\ [][NextSearch]_vars

(***************************************************************************)
(* Specification of the opportunity scorer: the world is a features dict,  *)
(* the state of the model artifact at start-up and what inference does.    *)
(***************************************************************************)
Present(values) ==
    {[present |-> FALSE, value |-> None], [present |-> TRUE, value |-> None]}
        \cup {[present |-> TRUE, value |-> Some(v)] : v \in values}

FeatureDicts ==
    [search_trend_score : Present({0, 29, 30, 50, 70, 71, 80, 100}),
     temperature : Present({-5, 0, 9, 10, 14, 15, 19, 20, 25, 30, 31, 35, 36}),
     rain_probability : Present({0, 1, 2, 3, 5, 7, 8, 10}),
     is_holiday : {[present |-> FALSE, value |-> None],
                   [present |-> TRUE, value |-> Some(FALSE)],
                   [present |-> TRUE, value |-> Some(TRUE)]}]

Artifacts == {"missing", "corrupt", "loadable"}

Inferences ==
    {[kind |-> "raises", tenths |-> 0], [kind |-> "not a number", tenths |-> 0]}
        \cup {[kind |-> "number", tenths |-> t] : t \in {-125, -5, 379, 1000, 2500}}

ScoreWorlds ==
    [features : FeatureDicts, artifact : {"missing", "corrupt"},
     inference : {[kind |-> "raises", tenths |-> 0]}]
        \cup [features : {f \in FeatureDicts :
                             f.rain_probability.value \in {None, Some(1)}
                                 /\ f.temperature.value \in
                                        {None, Some(0), Some(25)}},
              artifact : {"loadable"}, inference : Inferences]

InitScore ==
    /\ world \in ScoreWorlds
    /\ tracked = TrackedRows
    /\ alerts = {}
    /\ nextId = 1
    /\ job = JobIdle
    /\ out = [op |-> "none"]
    /\ patches = 0
    /\ stable = [u \in UserIds |-> FALSE]
    /\ sessions = NoSessions

\* fed: the vector self.model.predict is called with, when there is a model
CallPredictOpportunity ==
    /\ out' = [op |-> "predict_opportunity",
               fed |-> IF LoadModel(world.artifact)
                       THEN Some(FeatureVector(world.features)) ELSE None,
               ret |-> PredictOpportunity(LoadModel(world.artifact),
                                          world.features, world.inference)]
    /\ UNCHANGED pipeline

CallFallbackScore ==
    /\ out' = [op |-> "_fallback_score",
               ret |-> Ret(FallbackScore(world.features))]
    /\ UNCHANGED pipeline

CallGenerateExplanation ==
    /\ out' = [op |-> "_generate_explanation",
               ret |-> Ret(GenerateExplanation(world.features))]
    /\ UNCHANGED pipeline

NextScore ==
    \/ CallPredictOpportunity
    \/ CallFallbackScore
    \/ CallGenerateExplanation

SpecScore == InitScore /\ [][NextScore]_vars

(***************************************************************************)
(* Specification of the weather rules: forecasts of up to two entries in   *)
(* time order around the thresholds of the rain and hot rules, the other   *)
(* sources fixed, and POST /keywords adding 'umbrella' between runs.       *)
(***************************************************************************)
WeatherEntries ==
    [hours_ahead : {3, 6, 7}, temperature : {Some(25), Some(36)},
     rain_probability : {70, 75}]

Forecasts ==
    {None, Some(<<>>)}
        \cup {Some(<<e>>) : e \in WeatherEntries}
        \cup {Some(<<pair[1], pair[2]>>) :
                pair \in {pr \in WeatherEntries \X WeatherEntries :
                             pr[1].hours_ahead < pr[2].hours_ahead}}

WeatherWorlds ==
    [forecast : Forecasts, holidays : {None}, trend : {NoTrends},
     clock : {Quiet.clock}, industry : {Busy.industry}, hashseed : {0}]

InitWeather ==
    /\ world \in WeatherWorlds
    /\ tracked \in {[u \in UserIds |-> t] : t \in EvalTracked}
    /\ alerts = {}
    /\ nextId = 1
    /\ job = JobIdle
    /\ out = [op |-> "none"]
    /\ patches = 0
    /\ stable = [u \in UserIds |-> FALSE]
    /\ sessions = NoSessions

\* POST /keywords: add_keyword
AddKeyword(u, keyword) ==
    /\ Users[u].is_active
    /\ IF \E i \in 1..Len(tracked[u]) : tracked[u][i].keyword = keyword
       THEN /\ out' = [op |-> "add_keyword", user |-> u, status_code |-> 400]
            /\ UNCHANGED tracked
       ELSE /\ tracked' = [tracked EXCEPT ![u] =
                              Append(@, [keyword |-> keyword,
                                         is_active |-> TRUE])]
            /\ out' = [op |-> "add_keyword", user |-> u, status_code |-> 201]
    /\ UNCHANGED <<world, sessions, alerts, nextId, job, patches, stable>>

NextWeather ==
    \/ \E u \in UserIds : CallDetectDemandPeaks(u)
    \/ \E u \in UserIds : CallFindPromotionWindows(u)
    \/ \E u \in UserIds : AddKeyword(u, "umbrella")

SpecWeather == InitWeather /\ [][NextWeather]_vars

(***************************************************************************)
(* Specification of the rule-evaluation step with its evaluators in any    *)
(* order: a run calls each evaluator once (the per-keyword ones once per   *)
(* active keyword), concatenates their lists and hands the result to the   *)
(* save loop.                                                              *)
(***************************************************************************)
\* the list each evaluator call of one run returns, in the order
\* detect_demand_peaks and find_promotion_windows make the calls
EvaluatorRuns(user, rows, w) ==
    LET keywords == ActiveKeywords(rows)
    IN  << CheckAutomaticWeatherAlerts(user, rows, w),
           CheckIndustryTrends(user, rows, w) >>
        \o Flatten([i \in 1..Len(keywords) |->
                << CheckWeatherDemand(user, keywords[i], w),
                   CheckEventDemand(user, keywords[i]),
                   CheckSocialTrends(user, keywords[i], w),
                   CheckCompetitorStockouts(user, keywords[i]),
                   CheckFestivalDemand(user, keywords[i], w) >>])
        \o Flatten([i \in 1..Len(keywords) |->
                << CheckSentimentPeaks(user, keywords[i], w),
                   CheckFestivalPriming(user, keywords[i], w),
                   CheckFootfallHours(user, keywords[i], w),
                   CheckCompetitorInactivity(user, keywords[i], w) >>])

\* the orders of n evaluator calls the model tries: the code's, its reverse,
\* and the code's with two calls exchanged
EvaluatorOrders(n) ==
    {[k \in 1..n |-> k], [k \in 1..n |-> n + 1 - k]}
        \cup {[k \in 1..n |-> IF k = i THEN j ELSE IF k = j THEN i ELSE k] :
                i \in 1..n, j \in 2..n}

\* alerts.extend(...) over the evaluator calls taken in `order`
BatchInOrder(lists, order) == Flatten([k \in 1..Len(lists) |-> lists[order[k]]])

\* type, keyword, priority, title and payload of a stored alert
Content(a) ==
    [alert_type |-> a.alert_type, keyword |-> a.keyword,
     priority |-> a.priority, title |-> a.title,
     context_data |-> a.context_data]

\* what the save loop persists of a batch, by content
Persisted(batch, rows) ==
    LET staged == SaveLoop(batch, rows, <<>>)
    IN  {Content(staged[i]) : i \in 1..Len(staged)}

OrderWorlds ==
    {Quiet, Busy,
     [Busy EXCEPT !.trend = [NoTrends EXCEPT !["Gifts"] = Some(90)]]}

InitOrder ==
    /\ world \in OrderWorlds
    /\ tracked \in {[u \in UserIds |-> IF u = 1 THEN t ELSE <<>>] :
                        t \in {r \in EvalTracked : Len(r) <= 1}}
    /\ alerts = {}
    /\ nextId = 1
    /\ job = JobIdle
    /\ out = [op |-> "none"]
    /\ patches = 0
    /\ stable = [u \in UserIds |-> FALSE]
    /\ sessions = NoSessions

\* a run for user u whose evaluator calls are made in `order`, then the save
\* loop and the commit of POST /alerts/generate.  A user whose last run
\* committed has an open alert for every candidate, so a further run adds
\* nothing in any order; the model leaves those runs to Generate.
RunInOrder(u, order) ==
    /\ job.pc = "idle"
    /\ Users[u].is_active
    /\ ~stable[u]
    /\ LET batch  == BatchInOrder(EvaluatorRuns(Users[u], tracked[u], world),
                                  order)
           staged == SaveLoop(batch, alerts, <<>>)
       IN  /\ nextId + Len(staged) - 1 <= MaxAlerts
           /\ alerts' = alerts \cup CommittedRows(staged, nextId)
           /\ nextId' = nextId + Len(staged)
           /\ out' = [op |-> "run_in_order", user |-> u, order |-> order,
                      total_detected |-> Len(batch),
                      created |-> Len(staged)]
           /\ stable' = [stable EXCEPT ![u] = TRUE]
    /\ UNCHANGED <<world, sessions, tracked, job, patches>>

NextOrder ==
    \/ \E u \in UserIds : Generate(u)
    \/ \E u \in UserIds :
          \E order \in EvaluatorOrders(
                          Len(EvaluatorRuns(Users[u], tracked[u], world))) :
              RunInOrder(u, order)

SpecOrder == InitOrder /\ [][NextOrder]_vars

(***************************************************************************)
(* Specification of overlapping pipeline executions.  The job opens its    *)
(* session with SessionLocal() and a request gets its own from get_db, so  *)
(* each execution sees the committed rows and the rows it added itself,    *)
(* and not what another execution has added and not yet committed.  A step *)
(* is one statement of the save loop that reaches the database: the        *)
(* `existing` query of one candidate, or the commit.                       *)
(***************************************************************************)
SessionKinds == {"job", "request"}

\* the job's pass over user u, or POST /alerts/generate by user u, up to the
\* save loop: the detectors ran and all_alerts is built
SessionBegins(r, kind, u) ==
    /\ sessions[r].pc = "idle"
    /\ Users[u].is_active
    /\ kind = "job" =>
          \A q \in SessionIds : sessions[q].kind # "job"
    /\ sessions' = [sessions EXCEPT ![r] =
                       [pc |-> "saving", kind |-> kind, user |-> u,
                        todo |-> AllAlerts(u), staged |-> <<>>]]
    /\ UNCHANGED <<world, tracked, alerts, nextId, job, out, patches, stable>>

\* one turn of `for alert_data in all_alerts`: the query, and db.add if it
\* found nothing
SessionChecks(r) ==
    /\ sessions[r].pc = "saving"
    /\ sessions[r].todo # <<>>
    /\ LET c == Head(sessions[r].todo)
       IN  sessions' = [sessions EXCEPT
                          ![r].todo = Tail(@),
                          ![r].staged =
                              IF Existing(c, alerts, @) THEN @
                              ELSE Append(@, NewAlert(c))]
    /\ UNCHANGED <<world, tracked, alerts, nextId, job, out, patches, stable>>

\* db.commit() after the loop
SessionCommits(r) ==
    /\ sessions[r].pc = "saving"
    /\ sessions[r].todo = <<>>
    /\ nextId + Len(sessions[r].staged) - 1 <= MaxAlerts
    /\ alerts' = alerts \cup CommittedRows(sessions[r].staged, nextId)
    /\ nextId' = nextId + Len(sessions[r].staged)
    /\ sessions' = [sessions EXCEPT ![r].pc = "committed"]
    /\ out' = [op |-> sessions[r].kind, user |-> sessions[r].user,
               created |-> Len(sessions[r].staged)]
    /\ UNCHANGED <<world, tracked, job, patches, stable>>

\* a database call raises: the job rolls back (alert_generator.py l.53-55),
\* a request's session is closed without a commit
SessionRollsBack(r) ==
    /\ sessions[r].pc = "saving"
    /\ sessions' = [sessions EXCEPT ![r].pc = "rolled_back", ![r].staged = <<>>]
    /\ UNCHANGED <<world, tracked, alerts, nextId, job, out, patches, stable>>

InitRace ==
    /\ world \in Worlds
    /\ tracked = TrackedRows
    /\ alerts = {}
    /\ nextId = 1
    /\ job = JobIdle
    /\ out = [op |-> "none"]
    /\ patches = 0
    /\ stable = [u \in UserIds |-> FALSE]
    /\ sessions = NoSessions

NextRace ==
    \/ \E r \in SessionIds, kind \in SessionKinds, u \in UserIds :
          SessionBegins(r, kind, u)
    \/ \E r \in SessionIds : SessionChecks(r)
    \/ \E r \in SessionIds : SessionCommits(r)
    \/ \E r \in SessionIds : SessionRollsBack(r)

SpecRace == InitRace /\ [][NextRace]_vars

(***************************************************************************)
(* Specification of the holiday rules: one holiday at every distance from  *)
(* today up to past the look-ahead of get_upcoming_holidays, at midnight   *)
(* sharp and during the day.                                               *)
(***************************************************************************)
\* furthest holiday of the provider's list, in days from today
MaxOff == 16

HolidayLists ==
    {None, Some(<<>>)}
        \cup {Some(<< [name |-> n, off |-> d] >>) :
                n \in {"Diwali", "Bank Holiday"}, d \in 0..MaxOff}
        \cup {Some(<< [name |-> "Diwali", off |-> d],
                      [name |-> "Bank Holiday", off |-> 5] >>) : d \in {2, 8}}

Clocks ==
    {[hour |-> 0, weekday |-> 2, midnight |-> TRUE],
     [hour |-> 0, weekday |-> 2, midnight |-> FALSE],
     [hour |-> 15, weekday |-> 6, midnight |-> FALSE]}

HolidayWorlds ==
    [forecast : {None}, holidays : HolidayLists, trend : {NoTrends},
     clock : Clocks, industry : {NoIndustry}, hashseed : {0}]

InitHoliday ==
    /\ world \in HolidayWorlds
    /\ tracked \in {[u \in UserIds |-> t] : t \in EvalTracked}
    /\ alerts = {}
    /\ nextId = 1
    /\ job = JobIdle
    /\ out = [op |-> "none"]
    /\ patches = 0
    /\ stable = [u \in UserIds |-> FALSE]
    /\ sessions = NoSessions

NextHoliday ==
    \/ \E u \in UserIds : CallDetectDemandPeaks(u)
    \/ \E u \in UserIds : CallFindPromotionWindows(u)

SpecHoliday == InitHoliday /\ [][NextHoliday]_vars

(***************************************************************************)
(* Specification of the industry rule: what get_industry_trends returns    *)
(* for 'electronics' is any list in descending score order (its last step  *)
(* is the sort), for 'food' nothing or one entry, for 'books' nothing (the *)
(* service has no keywords for it); the user's categories vary.            *)
(***************************************************************************)
\* longest list get_industry_trends returns in the model
MaxTrends == 4

\* scores around the thresholds 70 and 80; get_industry_trends keeps no
\* entry at 10 or below
TrendScores == {11, 70, 71, 80, 81, 100}

TrendKeywords == <<"laptop", "smartphone", "tablet", "tv", "camera">>

TrendLists ==
    UNION {{[i \in 1..n |-> [keyword |-> TrendKeywords[i],
                             trend_score |-> f[i],
                             status |-> GdeltStatus(f[i]),
                             source |-> "gdelt"]] :
               f \in {g \in [1..n -> TrendScores] :
                         \A i \in 1..(n - 1) : g[i] >= g[i + 1]}} :
           n \in 0..MaxTrends}

IndustryWorlds ==
    {[Quiet EXCEPT !.industry = [electronics |-> e, food |-> f, books |-> <<>>],
                   !.hashseed = seed] :
        e \in TrendLists,
        f \in {<<>>, << [keyword |-> "snacks", trend_score |-> 90,
                         status |-> "trending", source |-> "gdelt"] >>},
        seed \in {0, 19}}

\* user.market_categories
CategoryLists ==
    {<<>>, <<"electronics">>, <<"books">>, <<"electronics", "food">>,
     <<"food", "electronics">>}

InitIndustry ==
    /\ world \in IndustryWorlds
    /\ tracked = TrackedRows
    /\ alerts = {}
    /\ nextId = 1
    /\ job = JobIdle
    /\ out = [op |-> "none"]
    /\ patches = 0
    /\ stable = [u \in UserIds |-> FALSE]
    /\ sessions = NoSessions

\* self._check_industry_trends(user, city, country) for user 1 with the
\* market categories of the call
CallCheckIndustryTrends ==
    \E categories \in CategoryLists :
        /\ out' = [op |-> "_check_industry_trends", categories |-> categories,
                   ret |-> CheckIndustryTrends(
                              [id |-> 1, is_active |-> TRUE,
                               market_categories |-> categories],
                              tracked[1], world)]
        /\ UNCHANGED pipeline

\* get_all_industry_trends for the categories of the call
CallGetAllTrends ==
    \E categories \in CategoryLists :
        /\ out' = [op |-> "get_all_industry_trends", industries |-> categories,
                   fetched |-> world.industry,
                   ret |-> Ret(GetAllIndustryTrends(categories, world.industry,
                                                    world.hashseed))]
        /\ UNCHANGED pipeline

NextIndustry ==
    \/ CallCheckIndustryTrends
    \/ CallGetAllTrends

SpecIndustry == InitIndustry /\ [][NextIndustry]_vars

(***************************************************************************)
(* Specification of the alert store under the requests of its users: runs  *)
(* of the job and of POST /alerts/generate fill it, and PATCH and DELETE   *)
(* come from any active user, for any alert id, with any status string     *)
(* (AlertUpdate.status is Optional[str]).                                  *)
(***************************************************************************)
\* request bodies: no status, the empty string, the four values of
\* AlertStatus, and a string that is none of them
AnyStatusInputs == StatusInputs \cup {Some(""), Some("archived")}

\* alert ids in the path of a request: rows of either user, or of no one
AnyRequestIds == {1, 2}

InitStore ==
    /\ world = Busy
    /\ tracked = TrackedRows
    /\ alerts = {}
    /\ nextId = 1
    /\ job = JobIdle
    /\ out = [op |-> "none"]
    /\ patches = 0
    /\ stable = [u \in UserIds |-> FALSE]
    /\ sessions = NoSessions

NextStore ==
    \/ JobStart
    \/ JobUserCommits
    \/ JobFinish
    \/ \E u \in UserIds : Generate(u)
    \/ \E u \in UserIds, id \in AnyRequestIds, st \in AnyStatusInputs :
          UpdateAlert(u, id, st)
    \/ \E u \in UserIds, id \in AnyRequestIds : DeleteAlert(u, id)

SpecStore == InitStore /\ [][NextStore]_vars

(***************************************************************************)
(* Steps and sets the properties speak of                                  *)
(***************************************************************************)
SameTriple(a, c) ==
    /\ a.user_id = c.user_id
    /\ a.alert_type = c.alert_type
    /\ a.keyword = c.keyword

\* the open alerts of rows with the candidate's triple
OpenFor(rows, c) == {a \in rows : a.status = "new" /\ SameTriple(a, c)}

\* the job handles user u
JobUserStep(u) ==
    /\ job.pc = "running" /\ job.queue # <<>> /\ Head(job.queue) = u
    /\ job'.pc = "running" /\ job'.queue = Tail(job.queue)

\* the job returns
JobReturns == job.pc = "running" /\ job.queue = <<>>

\* POST /alerts/generate by user u is answered
GenerateStep(u) ==
    /\ job.pc = "idle" /\ job' = job /\ patches' = patches
    /\ out'.op = "generate" /\ out'.user = u

\* a run for user u that reaches its commit
RunCommits(u) ==
    \/ JobUserStep(u) /\ job'.res[u].outcome = "committed"
    \/ GenerateStep(u) /\ out'.code = 200

\* candidate i of the batch repeats the triple of an open alert of rows or of
\* an earlier candidate of the batch
IsDuplicate(batch, i, rows) ==
    \/ OpenFor(rows, batch[i]) # {}
    \/ \E j \in 1..(i - 1) : SameTriple(batch[j], batch[i])

SuppressedCount(batch, rows) ==
    Cardinality({i \in 1..Len(batch) : IsDuplicate(batch, i, rows)})

CommittedOf == [u \in UserIds |-> job.res[u].committed]

(***************************************************************************)
(* C1..C7: the pipeline                                                    *)
(***************************************************************************)
\* C1: a run that commits leaves an open alert for every candidate of the
\* user's batch, and a run for a user whose last run committed, with the
\* same external responses and no change of the user's alerts since,
\* persists no alert and counts none (job and manual endpoint alike).
C1_SecondRunAddsNothing ==
    [][\A u \in UserIds :
          /\ RunCommits(u) =>
                LET batch == AllAlerts(u)
                IN  \A i \in 1..Len(batch) : OpenFor(alerts', batch[i]) # {}
          /\ (stable[u] /\ JobUserStep(u)) =>
                /\ alerts' = alerts
                /\ job'.total_alerts = job.total_alerts
          /\ (stable[u] /\ GenerateStep(u)) =>
                /\ alerts' = alerts
                /\ out'.created = 0]_vars

\* the job ran a second time over users with candidates and created nothing
C1_Witness ==
    /\ JobReturns
    /\ job.total_alerts = 0
    /\ alerts # {}
    /\ \A u \in ActiveUsers :
          /\ stable[u]
          /\ job.res[u].outcome = "committed"
          /\ job.res[u].detected > 0

C3_DuplicatesNotPersisted ==
    [][\A u \in UserIds :
          /\ RunCommits(u) =>
                \A a \in alerts' \ alerts : OpenFor(alerts, a) = {}
          /\ (GenerateStep(u) /\ out'.code = 200) =>
                LET batch == AllAlerts(u)
                IN  /\ out'.total_detected = Len(batch)
                    /\ out'.created = Cardinality(alerts' \ alerts)
                    /\ out'.created =
                          out'.total_detected - SuppressedCount(batch, alerts)
          /\ (JobUserStep(u) /\ job'.res[u].outcome = "committed") =>
                LET batch == AllAlerts(u)
                IN  /\ job'.total_alerts - job.total_alerts =
                          Cardinality(alerts' \ alerts)
                    /\ job'.total_alerts - job.total_alerts =
                          Len(batch) - SuppressedCount(batch, alerts)]_vars

\* the endpoint created some alerts and suppressed others while the user
\* had open alerts and a closed one
C3_Witness ==
    /\ out.op = "generate" /\ out.code = 200
    /\ out.created >= 1
    /\ out.created < out.total_detected
    /\ \E a \in alerts : a.user_id = out.user /\ a.status # "new" /\ a.id = 1
    /\ \E a \in alerts : a.user_id = out.user /\ a.status = "new" /\ a.id = 2

\* C4: a candidate whose type and keyword no open alert of the same user
\* has, and no earlier candidate of the batch has, is persisted: alerts of
\* other users and alerts that are read, acted or dismissed suppress nothing.
C4_OnlyOwnOpenAlertSuppresses ==
    [][\A u \in UserIds :
          RunCommits(u) =>
             LET batch == AllAlerts(u)
             IN  \A i \in 1..Len(batch) :
                    (/\ ~ \E a \in alerts :
                            /\ a.user_id = u /\ a.status = "new"
                            /\ a.alert_type = batch[i].alert_type
                            /\ a.keyword = batch[i].keyword
                     /\ ~ \E j \in 1..(i - 1) : SameTriple(batch[j], batch[i]))
                    => \E r \in alerts' \ alerts :
                          SameTriple(r, batch[i]) /\ r.status = "new"]_vars

\* two users hold open alerts of one type and keyword, and a user holds a
\* closed alert next to a later open one of the same type and keyword
C4_Witness ==
    /\ \E a, b \in alerts :
          /\ a.user_id # b.user_id
          /\ a.alert_type = b.alert_type /\ a.keyword = b.keyword
          /\ a.status = "new" /\ b.status = "new"
    /\ \E a, b \in alerts :
          /\ SameTriple(a, b) /\ a.id < b.id
          /\ a.status \in {"read", "acted", "dismissed"}
          /\ b.status = "new"

\* C5: when detection raises for a user of the job, nothing of that user is
\* persisted or counted and the users after it are still handled; when the
\* job returns every active user was handled, and in a run whose only
\* failures are such errors the total is the sum of what the other users
\* committed.
C5_BatchIsolation ==
    [][/\ \A u \in UserIds :
             (JobUserStep(u) /\ job'.res[u].outcome = "detect_error") =>
                /\ alerts' = alerts
                /\ job'.total_alerts = job.total_alerts
                /\ job'.res[u].committed = 0
       /\ \A u \in UserIds :
             (JobUserStep(u) /\ job'.res[u].outcome = "committed") =>
                /\ job'.res[u].committed = Cardinality(alerts' \ alerts)
                /\ \A a \in alerts' \ alerts : a.user_id = u
       /\ JobReturns' =>
             /\ \A u \in ActiveUsers : job'.res[u].outcome # "pending"
             /\ (\A u \in ActiveUsers : job'.res[u].outcome # "write_error") =>
                   job'.total_alerts =
                      SumOver(ActiveUsers,
                              [u \in UserIds |-> job'.res[u].committed])]_vars

\* detection failed for one user and the job still committed alerts of
\* another user, handled after it
C5_Witness ==
    /\ JobReturns
    /\ job.total_alerts > 0
    /\ \E u, v \in ActiveUsers :
          /\ u < v
          /\ job.res[u].outcome = "detect_error"
          /\ job.res[v].outcome = "committed"
          /\ job.res[v].committed > 0
          /\ \E a \in alerts : a.user_id = v
          /\ ~ \E a \in alerts : a.user_id = u

\* C6: the job's pass over a user adds either nothing or exactly the
\* surviving candidates of the user's batch, and removes no committed row.
C6_AllOrNothing ==
    [][\A u \in UserIds :
          JobUserStep(u) =>
             /\ alerts \subseteq alerts'
             /\ \/ alerts' = alerts
                \/ alerts' \ alerts =
                     CommittedRows(SaveLoop(AllAlerts(u), alerts, <<>>), nextId)
             /\ job'.res[u].outcome = "write_error" => alerts' = alerts]_vars

\* a write failed for a user with staged rows after another user's rows were
\* committed in the same run: the first user's rows are there, none of the
\* second
C6_Witness ==
    /\ JobReturns
    /\ \E u, v \in ActiveUsers :
          /\ job.res[u].outcome = "committed" /\ job.res[u].committed > 1
          /\ job.res[v].outcome = "write_error" /\ job.res[v].staged > 1
          /\ Cardinality({a \in alerts : a.user_id = u}) = job.res[u].committed
          /\ ~ \E a \in alerts : a.user_id = v

\* C7: the total the job returns contains nothing of a user whose write
\* failed: it is the sum of what the users committed.
C7_TotalCountsCommittedOnly ==
    JobReturns => job.total_alerts = SumOver(ActiveUsers, CommittedOf)

(***************************************************************************)
(* C8: the rule evaluators with absent signals                             *)
(***************************************************************************)
\* the evaluators a candidate can come from, told by what they write
FromForecast(c) == c.alert_type = "weather_opportunity"

FromHolidays(c) ==
    \/ c.alert_type = "festival_boost"
    \/ c.alert_type = "promotion_timing" /\ c.context_data.window_type = "priming"

FromTrendScore(c, keyword) ==
    /\ c.keyword = Some(keyword)
    /\ \/ c.alert_type = "sentiment_peak"
       \/ c.alert_type = "social_trend" /\ "source" \in DOMAIN c.context_data

FromIndustry(c) ==
    c.alert_type = "social_trend" /\ "industry" \in DOMAIN c.context_data

\* C8: a detector call returns; with the forecast None it returns no weather
\* candidate, with no holiday list no festival or priming candidate, with
\* no trend score for a keyword no trend or sentiment candidate for it, with
\* no industry trends no industry candidate; and the evaluators that read
\* other sources or none still emit: the stockout candidate of every active
\* keyword, the trend candidates of a keyword with a high score, the event
\* candidate, the competitor-inactivity window.
C8_AbsentSignalsFireNothing ==
    out.op \in {"detect_demand_peaks", "find_promotion_windows"} =>
       /\ ~out.ret.raised
       /\ LET cs   == out.ret.value
              user == Users[out.user]
              kws  == ActiveKeywords(tracked[out.user])
              Emits(P(_)) == \E i \in 1..Len(cs) : P(cs[i])
          IN  /\ IsNone(world.forecast) => ~Emits(FromForecast)
              /\ (IsNone(world.holidays) \/ Val(world.holidays) = <<>>) =>
                    ~Emits(FromHolidays)
              /\ \A k \in KeywordUniverse :
                    IsNone(world.trend[k]) =>
                       ~Emits(LAMBDA c : FromTrendScore(c, k))
              /\ (\A i \in 1..Len(user.market_categories) :
                     world.industry[user.market_categories[i]] = <<>>) =>
                    ~Emits(FromIndustry)
              /\ out.op = "detect_demand_peaks" =>
                    \A j \in 1..Len(kws) :
                       /\ Emits(LAMBDA c : /\ c.alert_type = "competitor_stockout"
                                           /\ c.keyword = Some(kws[j]))
                       /\ (/\ ~IsNone(world.trend[kws[j]])
                           /\ Val(world.trend[kws[j]]) > 70) =>
                             Emits(LAMBDA c : /\ c.alert_type = "social_trend"
                                              /\ c.keyword = Some(kws[j]))
                       /\ TermIn[EventKeywords, kws[j]] =>
                             Emits(LAMBDA c : /\ c.alert_type = "event_spike"
                                              /\ c.keyword = Some(kws[j]))
              /\ out.op = "find_promotion_windows" =>
                    \A j \in 1..Len(kws) :
                       /\ (/\ ~IsNone(world.trend[kws[j]])
                           /\ Val(world.trend[kws[j]]) > 65) =>
                             Emits(LAMBDA c : /\ c.alert_type = "sentiment_peak"
                                              /\ c.keyword = Some(kws[j]))
                       /\ (world.clock.hour >= 23 \/ world.clock.hour < 6) =>
                             Emits(LAMBDA c :
                                /\ c.alert_type = "promotion_timing"
                                /\ c.keyword = Some(kws[j])
                                /\ c.context_data.window_type
                                      = "competitor_inactivity")

\* with no forecast and no holiday list, a keyword with a high trend score
\* still gets its trend and stockout candidates, and nothing else
C8_Witness ==
    /\ out.op = "detect_demand_peaks"
    /\ IsNone(world.forecast)
    /\ IsNone(world.holidays)
    /\ world.industry = Quiet.industry
    /\ ActiveKeywords(tracked[out.user]) = <<"umbrella">>
    /\ Len(out.ret.value) = 2
    /\ out.ret.value[1].alert_type = "social_trend"
    /\ out.ret.value[2].alert_type = "competitor_stockout"

(***************************************************************************)
(* C9, C10: the source adapters                                            *)
(***************************************************************************)
FetchOperations ==
    {"get_forecast", "get_current_weather", "get_weather_data", "get_holidays",
     "get_upcoming_holidays", "fetch_gdelt_trends", "get_trend_score"}

\* C9: no public fetch operation of a source adapter lets an exception reach
\* its caller, whatever the network call did and whether or not the API key
\* is configured.
C9_AdaptersNeverRaise ==
    out.op \in FetchOperations => ~out.ret.raised

\* C10: when the provider call failed or the API key is missing,
\* search_trend returns None, and get_all_industry_trends gives no trends
\* for an industry whose trends could not be fetched.
C10_UnavailableMeansAbsent ==
    /\ (out.op = "search_trend" /\ (~out.api_key \/ ~Decoded(out.resp))) =>
          IsNone(out.ret.value)
    /\ out.op = "get_all_industry_trends" =>
          \A i \in 1..Len(out.ret.value) :
              out.fetched[out.ret.value[i][1]] = <<>> =>
                  out.ret.value[i][2] = <<>>

(***************************************************************************)
(* C11: invalid keywords                                                   *)
(***************************************************************************)
\* C11: for a keyword shorter than 3 characters, fetch_gdelt_trends returns
\* None, LangChainSearchService.search returns its error result and
\* GET /trends/search answers 400, and none of them issues a network
\* request (so there is nothing to retry).
C11_ShortKeywordRejectedOffline ==
    (out.op \in {"fetch_gdelt_trends", "langchain_search",
                 "search_keyword_trends"}
        /\ Len(Chars[out.keyword]) < 3) =>
        CASE out.op = "fetch_gdelt_trends" ->
                 out.requests = 0 /\ IsNone(out.ret.value)
          [] out.op = "langchain_search" ->
                 /\ out.ret.requests = 0
                 /\ out.ret.result.source = "invalid"
                 /\ ~IsNone(out.ret.result.error)
          [] out.op = "search_keyword_trends" ->
                 out.ret.requests = 0 /\ out.ret.status_code = 400

C11_Witness ==
    /\ out.op = "fetch_gdelt_trends"
    /\ out.keyword = "tv"
    /\ world.resp = Rising
    /\ out.requests = 0
    /\ IsNone(out.ret.value)

(***************************************************************************)
(* C13, C14: GDELT trend scores                                            *)
(***************************************************************************)
\* C13: GDELTService.get_trend_score returns None or an integer in
\* [10,100], and every trend_score reported by get_trends_for_keywords and
\* search_keyword lies in [10,100].
C13_TrendScoreBounds ==
    /\ out.op = "get_trend_score" =>
          IsNone(out.ret) \/ Val(out.ret) \in 10..100
    /\ out.op = "search_keyword" =>
          IsNone(out.ret) \/ Val(out.ret).trend_score \in 10..100
    /\ out.op = "get_trends_for_keywords" =>
          \A i \in 1..Len(out.ret) : out.ret[i].trend_score \in 10..100

C13_Witness ==
    /\ out.op = "get_trends_for_keywords"
    /\ Len(out.ret) = 2
    /\ out.ret[1].keyword = "laptop" /\ out.ret[1].trend_score = 100
    /\ out.ret[2].keyword = "smartphone" /\ out.ret[2].trend_score = 95

\* the volume series of the first timeline item of the GDELT answer, as
\* received
ReceivedSeries ==
    IF Decoded(world.resp) /\ ~IsNone(Val(world.resp.json).timeline)
          /\ Val(Val(world.resp.json).timeline) # <<>>
          /\ ~IsNone(Val(Val(world.resp.json).timeline)[1].data)
    THEN Val(Val(Val(world.resp.json).timeline)[1].data)
    ELSE <<>>

\* C14: a series whose last seven observations average below 90% of the
\* average of all its observations extracts to None, in get_trend_score
\* and in search_keyword.
C14_DecliningSeriesExtractsNone ==
    (/\ out.op \in {"get_trend_score", "search_keyword"}
     /\ 10 * Len(ReceivedSeries) * Sum(LastN(ReceivedSeries, 7))
            < 9 * Len(LastN(ReceivedSeries, 7)) * Sum(ReceivedSeries))
        => IsNone(out.ret)

(***************************************************************************)
(* C12, C15, C16, C20: the opportunity scorer                              *)
(***************************************************************************)
\* C12: predict_opportunity returns an opportunity_score in [0,100] for
\* every valid features dict, on the trained-model path, on the fallback
\* path and on the exception path.
C12_OpportunityScoreBounds ==
    out.op = "predict_opportunity" =>
        ~out.ret.raised /\ out.ret.value.opportunity_score \in 0..100

C12_Witness ==
    /\ out.op = "predict_opportunity"
    /\ LoadModel(world.artifact)
    /\ world.inference = [kind |-> "number", tenths |-> 2500]
    /\ out.ret.value.opportunity_score = 100

\* the features of the world are all given
AllGiven ==
    \A k \in DOMAIN world.features : ~IsNone(world.features[k].value)

\* the formula of the fallback, in tenths of a point
ClaimedFallback ==
    LET trend == Val(world.features.search_trend_score.value)
        temp == Val(world.features.temperature.value)
        rain == Val(world.features.rain_probability.value)
        holiday == Val(world.features.is_holiday.value)
    IN  500 + (trend - 50) * 4 + (IF holiday THEN 200 ELSE 0)
        + (IF temp \in 20..30 THEN 100
           ELSE IF temp > 30 \/ temp < 10 THEN 150 ELSE 0)
        - rain * 10

\* C15: with no trained model loaded, the score is the clamp to [0,100] of
\* 50 + (trend - 50) x 0.4 + 20 if holiday + the temperature bonus
\* - rain x 10, as an integer; trend 80, temperature 25, rain 0.1 on a
\* holiday gives 91.
C15_FallbackFormula ==
    ((out.op = "_fallback_score"
        \/ (out.op = "predict_opportunity" /\ ~LoadModel(world.artifact)))
       /\ AllGiven) =>
        LET score == IF out.op = "_fallback_score" THEN out.ret.value
                     ELSE out.ret.value.opportunity_score
        IN  /\ score = Max(0, Min(100, ClaimedFallback \div 10))
            /\ (/\ world.features.search_trend_score.value = Some(80)
                /\ world.features.temperature.value = Some(25)
                /\ world.features.rain_probability.value = Some(1)
                /\ world.features.is_holiday.value = Some(TRUE))
                   => score = 91

C15_Witness ==
    /\ out.op = "predict_opportunity"
    /\ world.artifact = "missing"
    /\ world.features.search_trend_score.value = Some(80)
    /\ world.features.temperature.value = Some(25)
    /\ world.features.rain_probability.value = Some(1)
    /\ world.features.is_holiday.value = Some(TRUE)
    /\ out.ret.value.opportunity_score = 91

\* C16: when the model artifact is missing or cannot be loaded, or when
\* inference raises or gives something that is not a number,
\* predict_opportunity returns, with the score and the explanation of the
\* rule-based fallback for the same features.
C16_ModelFailureFallsBack ==
    (out.op = "predict_opportunity"
        /\ (world.artifact # "loadable" \/ world.inference.kind # "number")) =>
        /\ ~out.ret.raised
        /\ out.ret.value.opportunity_score = FallbackScore(world.features)
        /\ out.ret.value.explanation = GenerateExplanation(world.features)

C16_Witness ==
    /\ out.op = "predict_opportunity"
    /\ world.artifact = "loadable"
    /\ world.inference.kind = "not a number"
    /\ world.features.search_trend_score.value = Some(100)
    /\ world.features.is_holiday.value = Some(TRUE)
    /\ ~out.ret.raised
    /\ out.ret.value.opportunity_score = 99

\* the phrases of the thresholds that fire, an absent feature firing none
FiredPhrases ==
    LET f == world.features IN
    (IF IsNone(f.search_trend_score.value) THEN <<>>
     ELSE IF Val(f.search_trend_score.value) > 70
     THEN <<"High search interest">>
     ELSE IF Val(f.search_trend_score.value) < 30
     THEN <<"Low search interest">> ELSE <<>>)
    \o (IF f.is_holiday.value = Some(TRUE)
        THEN <<"Holiday/festival period">> ELSE <<>>)
    \o (IF IsNone(f.temperature.value) THEN <<>>
        ELSE IF Val(f.temperature.value) > 35 THEN <<"Hot weather expected">>
        ELSE IF Val(f.temperature.value) < 15 THEN <<"Cold weather expected">>
        ELSE <<>>)
    \o (IF IsNone(f.rain_probability.value) THEN <<>>
        ELSE IF Val(f.rain_probability.value) > 7
        THEN <<"High rain probability">>
        ELSE IF Val(f.rain_probability.value) < 3
        THEN <<"Low rain probability">> ELSE <<>>)

\* C20: the explanation is 'Baseline conditions' when no threshold fires
\* (trend absent or in [30,70], no holiday, temperature absent or in
\* [15,35], rain absent or in [0.3,0.7]), and otherwise the list of the
\* phrases of the thresholds that fired.
C20_ExplanationDefault ==
    out.op \in {"_generate_explanation", "predict_opportunity"} =>
        LET explanation == IF out.op = "predict_opportunity"
                           THEN out.ret.value.explanation ELSE out.ret.value
        IN  explanation = IF FiredPhrases = <<>>
                          THEN <<"Baseline conditions">> ELSE FiredPhrases

(***************************************************************************)
(* C17, C18, C19: weather rules and the no-keyword policy                  *)
(***************************************************************************)
\* the entries of the forecast that put rain above 0.7 within 6 hours
RainEntries ==
    IF IsNone(world.forecast) THEN {}
    ELSE {i \in 1..Len(Val(world.forecast)) :
             /\ Val(world.forecast)[i].rain_probability > 70
             /\ Val(world.forecast)[i].hours_ahead <= 6}

\* the places of the weather candidates of a run for a keyword (None for
\* the keyword-less ones)
WeatherCandidates(cs, keyword) ==
    {j \in 1..Len(cs) : /\ cs[j].alert_type = "weather_opportunity"
                        /\ cs[j].keyword = keyword}

RainCandidates(cs, keyword) ==
    {j \in WeatherCandidates(cs, keyword) :
        cs[j].context_data.weather_type = "rain"}

\* C17: for an active tracked keyword of the rain lexicon, a run with rain
\* probability p > 0.7 forecast within 6 hours gives exactly one
\* weather_opportunity candidate for the keyword, of priority high, with
\* predicted_impact p x 50 and confidence_score p; a run without such a
\* forecast gives none.
C17_RainThresholdExact ==
    out.op = "detect_demand_peaks" =>
        LET cs  == out.ret.value
            kws == ActiveKeywords(tracked[out.user])
        IN  \A n \in 1..Len(kws) :
               TermIn[RainKeywords, kws[n]] =>
                  LET mine == WeatherCandidates(cs, Some(kws[n])) IN
                  IF RainEntries = {} THEN mine = {}
                  ELSE /\ Cardinality(mine) = 1
                       /\ \A j \in mine :
                             /\ cs[j].priority = "high"
                             /\ \E i \in RainEntries :
                                   LET p == Val(world.forecast)[i].rain_probability
                                   IN  /\ cs[j].predicted_impact = p * 50
                                       /\ cs[j].confidence_score = p

\* C18: with rain above 0.7 forecast within 6 hours, a run for a user
\* without an active keyword of the rain lexicon gives exactly one
\* keyword-less rain suggestion and no keyword-specific rain candidate;
\* once such a keyword is tracked and active, a run gives the
\* keyword-specific candidate and no keyword-less rain suggestion; no run
\* gives both.
C18_SuggestionSwitch ==
    out.op = "detect_demand_peaks" =>
        LET cs  == out.ret.value
            kws == ActiveKeywords(tracked[out.user])
            suggestions == RainCandidates(cs, None)
            specific == UNION {RainCandidates(cs, Some(k)) : k \in KeywordUniverse}
            tracksRain == \E n \in 1..Len(kws) : TermIn[RainKeywords, kws[n]]
        IN  /\ (RainEntries # {} /\ ~tracksRain) =>
                  /\ Cardinality(suggestions) = 1
                  /\ \A j \in suggestions :
                        "suggestion" \in DOMAIN cs[j].context_data
                  /\ specific = {}
            /\ (RainEntries # {} /\ tracksRain) =>
                  specific # {} /\ suggestions = {}
            /\ suggestions = {} \/ specific = {}

\* the run after 'umbrella' was added through POST /keywords by a user who
\* tracked only 'Gifts'
C18_Witness ==
    /\ out.op = "detect_demand_peaks"
    /\ out.user = 1
    /\ tracked[1] = << [keyword |-> "Gifts", is_active |-> TRUE],
                       [keyword |-> "umbrella", is_active |-> TRUE] >>
    /\ world.forecast = Some(<< [hours_ahead |-> 3, temperature |-> Some(25),
                                 rain_probability |-> 75] >>)
    /\ RainCandidates(out.ret.value, None) = {}
    /\ Cardinality(RainCandidates(out.ret.value, Some("umbrella"))) = 1

\* a candidate of one of the two keyword-independent checks
KeywordIndependent(c) ==
    \/ /\ c.alert_type = "weather_opportunity"
       /\ IsNone(c.keyword)
       /\ "suggestion" \in DOMAIN c.context_data
    \/ FromIndustry(c)

\* C19: for a user without active tracked keywords, inactive rows
\* included, detect_demand_peaks still gives the automatic weather
\* suggestion and the industry candidates and nothing else, exactly as for
\* a user with no rows at all, and find_promotion_windows gives nothing.
C19_NoKeywordsPolicy ==
    (out.op \in {"detect_demand_peaks", "find_promotion_windows"}
        /\ \A i \in 1..Len(tracked[out.user]) :
              ~tracked[out.user][i].is_active) =>
        LET cs   == out.ret.value
            user == Users[out.user]
        IN  IF out.op = "find_promotion_windows" THEN cs = <<>>
            ELSE /\ \A j \in 1..Len(cs) : KeywordIndependent(cs[j])
                 /\ RainEntries # {} => RainCandidates(cs, None) # {}
                 /\ (\E i \in 1..Len(user.market_categories) :
                        \E t \in 1..Min(3, Len(world.industry[user.market_categories[i]])) :
                            world.industry[user.market_categories[i]][t].trend_score > 70)
                       => \E j \in 1..Len(cs) : FromIndustry(cs[j])
                 /\ cs = DetectDemandPeaks(user, <<>>, world)

C19_Witness ==
    /\ out.op = "detect_demand_peaks"
    /\ out.user = 1
    /\ tracked[1] = << [keyword |-> "umbrella", is_active |-> FALSE] >>
    /\ world.industry = Busy.industry
    /\ RainCandidates(out.ret.value, None) # {}
    /\ \E j \in 1..Len(out.ret.value) : FromIndustry(out.ret.value[j])
    /\ \A j \in 1..Len(out.ret.value) : KeywordIndependent(out.ret.value[j])

(***************************************************************************)
(* C21: what every candidate carries                                       *)
(***************************************************************************)
\* C21: with trend scores in 0..100 and rain probabilities in [0,1], every
\* candidate a detector call returns has an alert_type of the nine-value
\* enumeration, a non-empty title, a non-empty message and a
\* confidence_score in [0,1].
C21_CandidateInvariant ==
    out.op \in {"detect_demand_peaks", "find_promotion_windows"} =>
        \A i \in 1..Len(out.ret.value) :
            LET c == out.ret.value[i]
            IN  /\ c.alert_type \in AlertType
                /\ c.title # ""
                /\ c.message # ""
                /\ 0 <= c.confidence_score /\ c.confidence_score <= 100

\* certain rain and a trend score of 100 for a tracked umbrella: the rain
\* and the trend candidates both carry confidence 1
C21_Witness ==
    /\ out.op = "detect_demand_peaks"
    /\ \E i, j \in 1..Len(out.ret.value) :
          /\ out.ret.value[i].alert_type = "weather_opportunity"
          /\ out.ret.value[i].keyword = Some("umbrella")
          /\ out.ret.value[i].confidence_score = 100
          /\ out.ret.value[j].alert_type = "social_trend"
          /\ "source" \in DOMAIN out.ret.value[j].context_data
          /\ out.ret.value[j].confidence_score = 100

(***************************************************************************)
(* C22: the order of the evaluators                                        *)
(***************************************************************************)
\* a run for user u with its evaluators in some order is answered
RunInOrderStep(u) ==
    /\ out'.op = "run_in_order" /\ out'.user = u
    /\ job' = job /\ patches' = patches

\* the evaluator calls of the code's order give the batch of the code
EvaluatorRunsAreTheBatch ==
    \A u \in UserIds :
        Flatten(EvaluatorRuns(Users[u], tracked[u], world)) = AllAlerts(u)

\* C22: for the signals and the alert store of the moment, a run persists
\* alerts of the same content (type, keyword, priority, title and payload)
\* in whatever order its evaluators are called and their lists concatenated:
\* the same as the run in the code's order persists.
C22_OrderInsensitive ==
    [][\A u \in UserIds :
          RunInOrderStep(u) =>
             {Content(a) : a \in alerts' \ alerts}
                = Persisted(AllAlerts(u), alerts)]_vars

(***************************************************************************)
(* C23: overlapping runs                                                   *)
(***************************************************************************)
\* every execution that began has committed or rolled back
AllSessionsEnded ==
    \A r \in SessionIds : sessions[r].pc \in {"idle", "committed", "rolled_back"}

\* C23: when two executions for the same user overlapped (the job and a
\* manual request, or two requests), in whatever order their queries and
\* commits interleaved, the store ends with at most one open alert per
\* (user_id, alert_type, keyword).
C23_ConcurrentRunsUnique ==
    AllSessionsEnded =>
        \A c \in alerts : Cardinality(OpenFor(alerts, c)) <= 1

(***************************************************************************)
(* C24, C25: the trend score of a series                                   *)
(***************************************************************************)
\* the GDELT request was answered with a series in which every observation
\* is positive
PositiveSeriesReceived ==
    /\ ~IsNone(FetchGdeltTrends(world.keyword, world.resp).value)
    /\ ReceivedSeries # <<>>
    /\ \A i \in 1..Len(ReceivedSeries) : ReceivedSeries[i] > 0

\* base + bonus, clamped to [0,100], with a floor of 10: values in
\* hundredths, averages compared by cross-multiplication
DerivedScore(series) ==
    LET recent_val == series[Len(series)]
        recent == LastN(series, 7)
        base  == IF recent_val < 1000 THEN recent_val ELSE recent_val \div 100
        bonus == IF 10 * Len(series) * Sum(recent) > 11 * Len(recent) * Sum(series)
                 THEN 20
                 ELSE IF Len(series) * Sum(recent) > Len(recent) * Sum(series)
                 THEN 10
                 ELSE 0
    IN  Max(10, Min(100, Max(0, base + bonus)))

\* C24: for a series that passes the validity gate, get_trend_score and
\* search_keyword give base + bonus clamped to [0,100] with a floor of 10:
\* base is the most recent value x 100 (the value itself from 10 up), bonus
\* is 20 when the 7-point trailing average is more than 10% above the
\* overall average, 10 when it is merely above, 0 otherwise.
C24_ScoreDerivation ==
    (/\ out.op \in {"get_trend_score", "search_keyword"}
     /\ PositiveSeriesReceived
     /\ ValidateTrendData(Val(world.resp.json))) =>
        /\ ~IsNone(out.ret)
        /\ out.op = "get_trend_score" =>
              Val(out.ret) = DerivedScore(ReceivedSeries)
        /\ out.op = "search_keyword" =>
              Val(out.ret).trend_score = DerivedScore(ReceivedSeries)

\* the score in what an extraction path returned, None when it gave none
ScoreIn(op, ret) ==
    IF IsNone(ret) THEN None
    ELSE IF op = "search_keyword" THEN Some(Val(ret).trend_score)
    ELSE ret

\* C25: for the same series, GDELTService.get_trend_score,
\* GDELTService.search_keyword and LangChainSearchService._get_gdelt_score
\* give the same outcome: the same integer, or None in all three.
C25_SameExtraction ==
    (/\ out.op \in {"get_trend_score", "search_keyword", "_get_gdelt_score"}
     /\ PositiveSeriesReceived) =>
        /\ ScoreIn(out.op, out.ret)
              = GdeltGetTrendScore(world.keyword, world.resp)
        /\ ScoreIn(out.op, out.ret)
              = ScoreIn("search_keyword",
                        GdeltSearchKeyword(world.keyword, world.resp))
        /\ ScoreIn(out.op, out.ret) = GetGdeltScore(world.resp)

(***************************************************************************)
(* C26: the festival priming window                                        *)
(***************************************************************************)
\* a festival-priming candidate for the keyword
IsPriming(c, keyword) ==
    /\ c.alert_type = "promotion_timing"
    /\ c.priority = "high"
    /\ c.keyword = Some(keyword)
    /\ c.context_data.window_type = "priming"

\* a holiday of the provider's list, lo to hi days from today, whose name
\* contains a mapped festival name whose lexicon has a term in the keyword
HolidayFor(keyword, lo, hi) ==
    /\ ~IsNone(world.holidays)
    /\ \E i \in 1..Len(Val(world.holidays)) :
          LET h == Val(world.holidays)[i]
          IN  /\ lo <= h.off /\ h.off <= hi
              /\ \E j \in 1..Len(PrimingKeywordsMap) :
                    /\ NameIn[PrimingKeywordsMap[j][1], h.name]
                    /\ TermIn[PrimingKeywordsMap[j][2], keyword]

\* C26: find_promotion_windows returns a festival-priming candidate
\* (promotion_timing, high) for a tracked keyword if and only if a holiday
\* whose name contains a mapped festival name is 3 to 7 days away inclusive
\* and the keyword contains a term of that festival's lexicon; a holiday 0
\* to 2, or 8 or more, days away gives none.
C26_PrimingWindow ==
    out.op = "find_promotion_windows" =>
        LET cs  == out.ret.value
            kws == ActiveKeywords(tracked[out.user])
        IN  \A k \in 1..Len(kws) :
                (\E i \in 1..Len(cs) : IsPriming(cs[i], kws[k]))
                    <=> HolidayFor(kws[k], 3, 7)

(***************************************************************************)
(* C27: the industry trend rule                                            *)
(***************************************************************************)
\* the trend entries get_all_industry_trends has for a category
EntriesOf(category) ==
    IF world.industry[category] = <<>>
    THEN GetFallbackTrends(category, world.hashseed)
    ELSE world.industry[category]

\* the scores of a list of entries or of candidates, highest first
ScoresOf(entries, score(_)) ==
    LET sorted == SortByScore([i \in 1..Len(entries) |->
                                  [trend_score |-> score(entries[i])]])
    IN  [i \in 1..Len(sorted) |-> sorted[i].trend_score]

\* the scores above 70 among the three highest of a category's entries
ExpectedScores(category) ==
    SelectSeq(Take(ScoresOf(EntriesOf(category), LAMBDA t : t.trend_score), 3),
              LAMBDA x : x > 70)

\* C27: for each market category of the user, the industry rule emits
\* candidates exactly for those of the three highest-scored trend entries of
\* the category whose trend_score is above 70 (at most three, none at 70
\* or below), with priority high above 80 and medium otherwise; with no
\* market categories it emits nothing.
C27_IndustryRule ==
    out.op = "_check_industry_trends" =>
        /\ out.categories = <<>> => out.ret = <<>>
        /\ \A i \in 1..Len(out.ret) :
              LET c == out.ret[i]
              IN  /\ \E k \in 1..Len(out.categories) :
                        c.category = Some(out.categories[k])
                  /\ \E j \in 1..Len(EntriesOf(Val(c.category))) :
                        LET t == EntriesOf(Val(c.category))[j]
                        IN  /\ c.keyword = Some(t.keyword)
                            /\ c.context_data.trend_score = t.trend_score
                  /\ c.priority = IF c.context_data.trend_score > 80
                                  THEN "high" ELSE "medium"
        /\ \A k \in 1..Len(out.categories) :
              ScoresOf(SelectSeq(out.ret,
                                 LAMBDA c : c.category = Some(out.categories[k])),
                       LAMBDA c : c.context_data.trend_score)
                  = ExpectedScores(out.categories[k])

(***************************************************************************)
(* C28, C30: the alert routes                                              *)
(***************************************************************************)
\* C28: after any sequence of pipeline runs and PATCH and DELETE requests,
\* the status of every stored alert is one of new, read, acted, dismissed.
C28_StatusClosed ==
    \A a \in alerts : a.status \in AlertStatus

\* a PATCH or DELETE request is answered
AlertRequestStep ==
    /\ patches' = patches + 1
    /\ out'.op \in {"update", "delete"}

\* C30: update_alert and delete_alert change or remove only the alert with
\* the id of the request and the user_id of the caller; when there is no
\* such alert (the id is another user's or no one's) the answer is 404 and
\* the store is as it was.
C30_OwnershipIsolation ==
    [][AlertRequestStep =>
          LET own == {a \in alerts : a.id = out'.alert_id
                                       /\ a.user_id = out'.user}
          IN  /\ own = {} => (out'.code = 404 /\ alerts' = alerts)
              /\ own # {} => out'.code = 200
              /\ \A a \in alerts \ own : a \in alerts'
              /\ \A a \in alerts' \ alerts :
                    a.id = out'.alert_id /\ a.user_id = out'.user]_vars

\* a request for another user's alert was answered 404, and the alert is
\* still in the store
C30_Witness ==
    /\ out.op \in {"update", "delete"}
    /\ out.code = 404
    /\ \E a \in alerts : a.id = out.alert_id /\ a.user_id # out.user

(***************************************************************************)
(* C29: the vector the model is fed                                        *)
(***************************************************************************)
\* a feature as supplied, or its default when the key is missing or None
Supplied(feature, default) ==
    IF feature.present /\ ~IsNone(feature.value) THEN Val(feature.value)
    ELSE default

\* C29: with a model loaded, predict_opportunity feeds it every supplied
\* value unchanged, zeros included, and the defaults (trend 50, temperature
\* 25, rain 0, holiday false) only for features that are missing.
C29_DefaultsOnlyForMissing ==
    (out.op = "predict_opportunity" /\ ~IsNone(out.fed)) =>
        Val(out.fed) =
            <<Supplied(world.features.search_trend_score, 50),
              Supplied(world.features.temperature, 25),
              Supplied(world.features.rain_probability, 0),
              IF Supplied(world.features.is_holiday, FALSE) THEN 1 ELSE 0>>

====
